---- MODULE Spec2Model ----
(***************************************************************************)
(* A model of gemdoc (src/gemdoc.py): the text/gemini translator, the PDF  *)
(* object parser, the polyglot assembler and reader, the Gemini fetch loop *)
(* and the command line's file handling.                                   *)
(*                                                                         *)
(* Text is a sequence of characters and binary data a sequence of bytes.   *)
(* An ASCII character or byte is the one-character string that shows it;   *)
(* any other code point is the token "U+XXXX" and any other byte the token *)
(* "xHH", so that encoding and decoding are real conversions.              *)
(***************************************************************************)
EXTENDS Integers, Sequences, FiniteSets, TLC

VARIABLES
    pc,          \* position of __main__ (or of retrieve_url) in its code
    in_place,    \* the -i flag
    args0,       \* the positional argument: the name of the input file
    output,      \* __main__'s output: the name of the file written to
    fs,          \* the file system: file name -> bytes, or Absent
    orig,        \* the bytes of the input file when the run started
    run,         \* number of the current run of the program
    doc,         \* __main__'s doc: the text read, extracted and defanged
    metadata,    \* __main__'s metadata mapping
    gemini_filename, \* the attachment's file name
    parsed,      \* what parse_gemini returned: gemini, html body, colophon
    engine_pdf,  \* the bytes the rendering engine wrote
    flateencode_streams, \* the option the engine's version selects
    polyglot,    \* the GemdocPDF object
    result,      \* the bytes serialize() returned
    xref,        \* serialize()'s xref table: object number -> byte offset
    error,       \* the exception that ended the run, or "none"
    history,     \* the run before this one: what it read, embedded, installed
    url,         \* retrieve_url: the argument url of the current call
    max_redirects, \* retrieve_url: the max_redirects of the current call
    requests,    \* retrieve_url: requests sent so far
    redirects,   \* retrieve_url: 3X responses received so far
    pending,     \* the server: redirects it still answers before its 2X
    response     \* retrieve_url: what the fetch returned

vars == <<pc, in_place, args0, output, fs, orig, run, doc, metadata,
          gemini_filename, parsed, engine_pdf, flateencode_streams, polyglot,
          result, xref, error, history,
          url, max_redirects, requests, redirects, pending, response>>

fileVars == <<in_place, args0, output, fs, orig, run, history>>

pipelineVars == <<gemini_filename, engine_pdf, flateencode_streams, polyglot,
                  result, xref>>

fetchVars == <<url, max_redirects, requests, redirects, pending, response>>

----------------------------------------------------------------------------
(* Python's str and bytes operations, on sequences.  Indices are 1-based    *)
(* here and 0-based in the source; a search that fails returns 0 here and   *)
(* -1 (find) or an exception (index) there.                                 *)

Chars(s) == [i \in 1..Len(s) |-> SubSeq(s, i, i)]

Min(S) == CHOOSE x \in S : \A y \in S : x <= y

Max(S) == CHOOSE x \in S : \A y \in S : x >= y

Take(s, n) == SubSeq(s, 1, n)

\* s[k-1:k] in the source's 0-based indices: one element, or none past the end
At(s, k) == IF k <= Len(s) THEN <<s[k]>> ELSE <<>>

Drop(s, n) == SubSeq(s, n + 1, Len(s))

StartsWithAt(s, sub, i) ==
    /\ i + Len(sub) - 1 <= Len(s)
    /\ \A k \in 1..Len(sub) : s[i + k - 1] = sub[k]

StartsWith(s, sub) == StartsWithAt(s, sub, 1)

EndsWith(s, sub) ==
    Len(sub) <= Len(s) /\ StartsWithAt(s, sub, Len(s) - Len(sub) + 1)

\* s.find(sub, start): the first index >= start where sub occurs, or 0
RECURSIVE FindIn(_, _, _, _)
FindIn(s, sub, lo, hi) ==
    IF lo > hi THEN 0
    ELSE IF lo = hi THEN (IF StartsWithAt(s, sub, lo) THEN lo ELSE 0)
    ELSE LET mid  == (lo + hi) \div 2
             left == FindIn(s, sub, lo, mid)
         IN  IF left # 0 THEN left ELSE FindIn(s, sub, mid + 1, hi)

Find(s, sub, start) == FindIn(s, sub, start, Len(s) - Len(sub) + 1)

Contains(s, sub) == Find(s, sub, 1) # 0

\* the first index >= start of an element in (or, with inside FALSE, not in)
\* the set cs, or 0: re.search of a character class
RECURSIVE FindClassIn(_, _, _, _, _)
FindClassIn(s, cs, inside, lo, hi) ==
    IF lo > hi THEN 0
    ELSE IF lo = hi THEN (IF (s[lo] \in cs) = inside THEN lo ELSE 0)
    ELSE LET mid  == (lo + hi) \div 2
             left == FindClassIn(s, cs, inside, lo, mid)
         IN  IF left # 0 THEN left ELSE FindClassIn(s, cs, inside, mid + 1, hi)

FindClass(s, cs, inside, start) == FindClassIn(s, cs, inside, start, Len(s))

RECURSIVE Replace(_, _, _)
\* s.replace(old, new)
Replace(s, old, new) ==
    LET p == Find(s, old, 1)
    IN  IF p = 0 THEN s
        ELSE Take(s, p - 1) \o new \o Replace(Drop(s, p + Len(old) - 1), old, new)

RECURSIVE FlattenRange(_, _, _)
FlattenRange(ss, lo, hi) ==
    IF lo > hi THEN <<>>
    ELSE IF lo = hi THEN ss[lo]
    ELSE LET mid == (lo + hi) \div 2
         IN  FlattenRange(ss, lo, mid) \o FlattenRange(ss, mid + 1, hi)

\* b''.join(parts)
Flatten(ss) == FlattenRange(ss, 1, Len(ss))

\* sep.join(parts)
Join(ss, sep) ==
    Flatten([i \in 1..Len(ss) |-> IF i = 1 THEN ss[i] ELSE sep \o ss[i]])

\* the line boundaries of str.splitlines()
LineBreaks == {"\n", "\r", "\f", "U+000B", "U+001C", "U+001D", "U+001E",
               "U+0085", "U+2028", "U+2029"}

RECURSIVE SplitLines(_)
\* s.splitlines(): no line for the text after a final line boundary
SplitLines(s) ==
    IF Len(s) = 0 THEN <<>>
    ELSE LET p == FindClass(s, LineBreaks, TRUE, 1)
         IN  IF p = 0 THEN <<s>>
             ELSE LET q == IF s[p] = "\r" /\ p < Len(s) /\ s[p + 1] = "\n"
                           THEN p + 1 ELSE p
                  IN  <<Take(s, p - 1)>> \o SplitLines(Drop(s, q))

\* the characters str.strip(), str.lstrip() and str.split() take for whitespace
StrSpace == {" ", "\t", "\n", "\r", "\f", "U+000B", "U+001C", "U+001D",
             "U+001E", "U+0085", "U+2028", "U+2029"}

LStrip(s) ==
    LET p == FindClass(s, StrSpace, FALSE, 1)
    IN  IF p = 0 THEN <<>> ELSE Drop(s, p - 1)

RECURSIVE LastOutside(_, _, _, _)
\* the last index in lo..hi of an element not in cs, or 0
LastOutside(s, cs, lo, hi) ==
    IF lo > hi THEN 0
    ELSE IF lo = hi THEN (IF s[lo] \notin cs THEN lo ELSE 0)
    ELSE LET mid   == (lo + hi) \div 2
             right == LastOutside(s, cs, mid + 1, hi)
         IN  IF right # 0 THEN right ELSE LastOutside(s, cs, lo, mid)

RStrip(s) == Take(s, LastOutside(s, StrSpace, 1, Len(s)))

Strip(s) == LStrip(RStrip(s))

\* s.split(maxsplit=1): at most two fields, the second with its tail kept
Split1(s) ==
    LET t == LStrip(s)
        p == FindClass(t, StrSpace, TRUE, 1)
    IN  IF Len(t) = 0 THEN <<>>
        ELSE IF p = 0 THEN <<t>>
        ELSE LET rest == LStrip(Drop(t, p - 1))
             IN  IF Len(rest) = 0 THEN <<Take(t, p - 1)>>
                 ELSE <<Take(t, p - 1), rest>>

\* s.split(sep) for a one-character separator
RECURSIVE SplitOn(_, _)
SplitOn(s, sep) ==
    LET p == FindClass(s, {sep}, TRUE, 1)
    IN  IF p = 0 THEN <<s>>
        ELSE <<Take(s, p - 1)>> \o SplitOn(Drop(s, p), sep)

Digits == {"0", "1", "2", "3", "4", "5", "6", "7", "8", "9"}

DigitChars == Chars("0123456789")

DigitValue(c) == (CHOOSE i \in 1..10 : DigitChars[i] = c) - 1

RECURSIVE ParseInt(_)
\* int(s) of a string of decimal digits
ParseInt(s) ==
    IF Len(s) = 0 THEN 0
    ELSE 10 * ParseInt(Take(s, Len(s) - 1)) + DigitValue(s[Len(s)])

RECURSIVE IntStr(_)
\* str(n) of a natural number
IntStr(n) ==
    IF n < 10 THEN <<DigitChars[n + 1]>>
    ELSE IntStr(n \div 10) \o <<DigitChars[(n % 10) + 1]>>

\* f'{n:010d}'
Pad10(n) ==
    LET s == IntStr(n)
    IN  [i \in 1..(10 - Len(s)) |-> "0"] \o s

----------------------------------------------------------------------------
(* Character encodings.                                                     *)

\* the grave accent, code 96, which a string of this language cannot hold
Backtick == "U+0060"

\* the code points outside ASCII that occur in the model
NonAscii == {"U+00B6", "U+00E9", "U+200B", "U+264A", "U+FE0E", "U+1F5CE"}

IsAscii(c) == c \notin NonAscii

\* str.encode('utf-8') of one character
Utf8Bytes(c) ==
    CASE c = "U+00B6"  -> <<"xC2", "xB6">>
      [] c = "U+00E9"  -> <<"xC3", "xA9">>
      [] c = "U+200B"  -> <<"xE2", "x80", "x8B">>
      [] c = "U+264A"  -> <<"xE2", "x99", "x8A">>
      [] c = "U+FE0E"  -> <<"xEF", "xB8", "x8E">>
      [] c = "U+1F5CE" -> <<"xF0", "x9F", "x97", "x8E">>
      [] OTHER         -> <<c>>

\* str.encode('utf-8')
Encode(t) == Flatten([i \in 1..Len(t) |-> Utf8Bytes(t[i])])

LeadBytes == {"xC2", "xC3", "xE2", "xEF", "xF0"}

ContinuationBytes == {"x80", "x8A", "x8B", "x8E", "x97", "x99", "x9F", "xA9",
                      "xB6", "xB8"}

\* bytes.decode('utf-8'): a lead byte and its continuation bytes make one
\* character
Decode(b) ==
    Flatten([i \in 1..Len(b) |->
        IF b[i] \in ContinuationBytes THEN <<>>
        ELSE IF b[i] \in LeadBytes
             THEN <<CHOOSE c \in NonAscii : StartsWithAt(b, Utf8Bytes(c), i)>>
             ELSE <<b[i]>>])

\* the printable ASCII characters, from code 32 (space) to code 126
Printable ==
    Chars(" !\"#$%&'()*+,-./0123456789:;<=>?@ABCDEFGHIJKLMNOPQRSTUVWXYZ[\\]^_")
        \o <<Backtick>> \o Chars("abcdefghijklmnopqrstuvwxyz{|}~")

\* ord(c), for the characters of the Basic Multilingual Plane in the model
CodePoint(c) ==
    CASE c = "\t"     -> 9
      [] c = "\n"     -> 10
      [] c = "\r"     -> 13
      [] c = "U+00B6" -> 182
      [] c = "U+00E9" -> 233
      [] c = "U+200B" -> 8203
      [] c = "U+264A" -> 9802
      [] c = "U+FE0E" -> 65038
      [] OTHER        -> 31 + (CHOOSE i \in 1..Len(Printable) : Printable[i] = c)

Bmp == {"\t", "\n", "\r", "U+00B6", "U+00E9", "U+200B", "U+264A", "U+FE0E"}
           \cup {Printable[i] : i \in 1..Len(Printable)}

\* chr(n)
CharOf(n) == CHOOSE c \in Bmp : CodePoint(c) = n

HexChars == Chars("0123456789abcdef")

\* '{:02x}'.format(b)
Hex2(b) == <<HexChars[(b \div 16) + 1], HexChars[(b % 16) + 1]>>

\* int(h, 16) of one hexadecimal digit, of either case
HexValue(h) ==
    IF h \in {HexChars[i] : i \in 1..16}
    THEN (CHOOSE i \in 1..16 : HexChars[i] = h) - 1
    ELSE (CHOOSE i \in 11..16 : Chars("0123456789ABCDEF")[i] = h) - 1

\* the hexadecimal digits of s.encode('utf-16be')
Utf16beHex(s) ==
    Flatten([i \in 1..Len(s) |->
        Hex2(CodePoint(s[i]) \div 256) \o Hex2(CodePoint(s[i]) % 256)])

\* bytes.fromhex(h).decode('utf-16'): sixteen-bit units, big-endian after the
\* byte order mark FE FF, little-endian after FF FE or without a mark
FromHexUtf16(h) ==
    LET byte(k) == 16 * HexValue(h[2 * k - 1]) + HexValue(h[2 * k])
        n       == Len(h) \div 4
        be(k)   == 256 * byte(2 * k - 1) + byte(2 * k)
        le(k)   == 256 * byte(2 * k) + byte(2 * k - 1)
        bom     == IF n = 0 THEN "none"
                   ELSE IF be(1) = 65279 THEN "be"
                   ELSE IF le(1) = 65279 THEN "le" ELSE "none"
        first   == IF bom = "none" THEN 1 ELSE 2
    IN  [k \in 1..(n - first + 1) |->
            CharOf(IF bom = "be" THEN be(k + first - 1) ELSE le(k + first - 1))]

----------------------------------------------------------------------------
(* urllib.parse, for urls without params, query and fragment.               *)

Letters == {Printable[i] : i \in 34..59} \cup {Printable[i] : i \in 66..91}

\* urllib.parse.scheme_chars
SchemeChars == Letters \cup Digits \cup {"+", "-", "."}

\* str.lower() of one character
Lower(c) ==
    IF c \in {Printable[i] : i \in 34..59} THEN CharOf(CodePoint(c) + 32) ELSE c

\* urllib.parse.uses_relative, and the same schemes of urllib.parse.uses_netloc
UsesRelative == {Chars(""), Chars("ftp"), Chars("http"), Chars("gopher"),
                 Chars("file"), Chars("https"), Chars("sftp"), Chars("ws"),
                 Chars("wss")}

UsesNetloc == UsesRelative \cup {Chars("telnet"), Chars("rsync"), Chars("git")}

\* urlparse(u): the scheme, the netloc and the path
UrlParse(u) ==
    LET i         == Find(u, <<":">>, 1)
        hasScheme == /\ i > 1
                     /\ u[1] \in Letters
                     /\ \A k \in 1..(i - 1) : u[k] \in SchemeChars
        scheme    == IF hasScheme THEN [k \in 1..(i - 1) |-> Lower(u[k])] ELSE <<>>
        rest      == IF hasScheme THEN Drop(u, i) ELSE u
        slash     == Find(rest, <<"/">>, 3)
        netloc    == IF ~StartsWith(rest, Chars("//")) THEN <<>>
                     ELSE IF slash = 0 THEN Drop(rest, 2)
                     ELSE SubSeq(rest, 3, slash - 1)
        path      == IF ~StartsWith(rest, Chars("//")) THEN rest
                     ELSE IF slash = 0 THEN <<>>
                     ELSE Drop(rest, slash - 1)
    IN  [scheme |-> scheme, netloc |-> netloc, path |-> path]

\* urlunparse((scheme, netloc, path, '', '', ''))
UrlUnparse(scheme, netloc, path) ==
    LET withNet == IF \/ Len(netloc) > 0
                      \/ /\ Len(scheme) > 0
                         /\ scheme \in UsesNetloc
                         /\ ~StartsWith(path, Chars("//"))
                   THEN Chars("//") \o netloc
                        \o (IF Len(path) > 0 /\ path[1] # "/" THEN <<"/">> ELSE <<>>)
                        \o path
                   ELSE path
    IN  IF Len(scheme) > 0 THEN scheme \o <<":">> \o withNet ELSE withNet

RECURSIVE ResolveSegments(_, _)
\* the loop of urljoin that removes the "." and ".." segments
ResolveSegments(segments, resolved) ==
    IF Len(segments) = 0 THEN resolved
    ELSE LET seg == Head(segments)
         IN  ResolveSegments(Tail(segments),
                 IF seg = Chars("..")
                 THEN (IF Len(resolved) = 0 THEN resolved
                       ELSE Take(resolved, Len(resolved) - 1))
                 ELSE IF seg = Chars(".") THEN resolved
                 ELSE Append(resolved, seg))

\* urljoin: base_parts = bpath.split('/'), without a non-empty last part
BaseParts(parts) ==
    IF Len(parts[Len(parts)]) # 0 THEN Take(parts, Len(parts) - 1) ELSE parts

\* urljoin: segments[1:-1] = filter(None, segments[1:-1])
FilterSegments(joined) ==
    IF Len(joined) < 3 THEN joined
    ELSE <<joined[1]>>
         \o SelectSeq(SubSeq(joined, 2, Len(joined) - 1), LAMBDA s : Len(s) > 0)
         \o <<joined[Len(joined)]>>

\* urljoin: the segments of the joined path, before "." and ".." are resolved
Segments(bpath, ppath) ==
    IF StartsWith(ppath, <<"/">>) THEN SplitOn(ppath, "/")
    ELSE FilterSegments(BaseParts(SplitOn(bpath, "/")) \o SplitOn(ppath, "/"))

\* urljoin: the resolved segments, closed by an empty one after "." or ".."
CloseSegments(segments) ==
    IF segments[Len(segments)] \in {Chars("."), Chars("..")}
    THEN Append(ResolveSegments(segments, <<>>), <<>>)
    ELSE ResolveSegments(segments, <<>>)

\* urljoin: '/'.join(resolved_path) or '/'
JoinedPath(closed) ==
    IF Len(Join(closed, <<"/">>)) = 0 THEN <<"/">> ELSE Join(closed, <<"/">>)

\* urljoin, given b = urlparse(base), p = urlparse(u) and scheme = p.scheme or b.scheme
UrlJoinParsed(base, u, b, p, scheme) ==
    IF Len(base) = 0 THEN u
    ELSE IF Len(u) = 0 THEN base
    ELSE IF scheme # b.scheme \/ scheme \notin UsesRelative THEN u
    ELSE IF scheme \in UsesNetloc /\ Len(p.netloc) > 0
         THEN UrlUnparse(scheme, p.netloc, p.path)
    ELSE IF Len(p.path) = 0 THEN UrlUnparse(scheme, b.netloc, b.path)
    ELSE UrlUnparse(scheme, b.netloc, JoinedPath(CloseSegments(Segments(b.path, p.path))))

\* urljoin, given the two parsed urls
UrlJoinSchemes(base, u, b, p) ==
    UrlJoinParsed(base, u, b, p, IF Len(p.scheme) = 0 THEN b.scheme ELSE p.scheme)

\* urljoin(base, u)
UrlJoin(base, u) == UrlJoinSchemes(base, u, UrlParse(base), UrlParse(u))

----------------------------------------------------------------------------
(* parse_gemini: the text/gemini -> HTML translator.  Its state is a record *)
(* st: the list of lines doc, the line index i, the flags preformatted and  *)
(* got_title, the html body, the metadata mapping and the exception raised. *)

Toggle == <<Backtick, Backtick, Backtick>>

\* html.escape(s)
HtmlEscape(s) ==
    Flatten([i \in 1..Len(s) |->
        CASE s[i] = "&"  -> Chars("&amp;")
          [] s[i] = "<"  -> Chars("&lt;")
          [] s[i] = ">"  -> Chars("&gt;")
          [] s[i] = "\"" -> Chars("&quot;")
          [] s[i] = "'"  -> Chars("&#x27;")
          [] OTHER       -> <<s[i]>>])

\* what add(line, tag, css_class) appends to the body
Element(line, tag, css_class) ==
    IF tag # "" /\ css_class # ""
    THEN Chars("<") \o Chars(tag) \o Chars(" class=\"") \o Chars(css_class)
         \o Chars("\">") \o HtmlEscape(line) \o Chars("</") \o Chars(tag)
         \o Chars(">")
    ELSE IF tag # ""
    THEN Chars("<") \o Chars(tag) \o Chars(">") \o HtmlEscape(line)
         \o Chars("</") \o Chars(tag) \o Chars(">")
    ELSE HtmlEscape(line)

IsBlank(line) == Len(Strip(line)) = 0

\* the number of blank lines that follow line i
BlankRun(lines, i) ==
    Max({k \in 0..(Len(lines) - i) : \A j \in (i + 1)..(i + k) : IsBlank(lines[j])})

\* add_empty_lines(i) for a run of n blank lines: one <br /> per line
AddBlankLines(st, n) ==
    [st EXCEPT !.i = st.i + n,
               !.body = st.body \o [k \in 1..n |-> Chars("<br />")]]

\* add_empty_lines(i): one <br /> per blank line after line i, and the index
\* of the last of them
AddEmptyLines(st) == AddBlankLines(st, BlankRun(st.doc, st.i))

Push(st, html) == [st EXCEPT !.body = Append(st.body, html)]

HeadingOpen == Chars("<div class=\"headingcontext\">")

\* the branches for ### and ## headings
Heading(st, level, tag) ==
    Push(AddEmptyLines(Push(Push(st, HeadingOpen),
                            Element(Strip(Drop(st.doc[st.i], level)), tag, ""))),
         Chars("</div>"))

TerminalPunctuation == {".", ",", ";", ":", "?", "!"}

\* ''.join((c if c.isascii() else '_' for c in s))
AsciiOnly(s) == [k \in 1..Len(s) |-> IF IsAscii(s[k]) THEN s[k] ELSE "_"]

\* whether the line after the title and its blank lines is a ## line
HasSubtitle(a) ==
    /\ a.i + 1 <= Len(a.doc)
    /\ StartsWith(a.doc[a.i + 1], Chars("##"))
    /\ At(a.doc[a.i + 1], 3) # <<"#">>

\* the text of the subtitle, empty without one
Subtitle(a) == IF HasSubtitle(a) THEN Strip(Drop(a.doc[a.i + 1], 2)) ELSE <<>>

\* the subtitle line consumed and added to the body
WithSubtitle(a) ==
    IF HasSubtitle(a)
    THEN Push([a EXCEPT !.i = a.i + 1], Element(Subtitle(a), "h2", "subtitle"))
    ELSE a

\* the title that the heading gives the metadata
TitleMetadata(title, subtitle, md) ==
    IF Len(title) > 0 /\ Len(subtitle) > 0
       /\ title[Len(title)] \in TerminalPunctuation
    THEN ("title" :> (title \o <<" ">> \o subtitle)) @@ md
    ELSE IF Len(title) > 0 /\ Len(subtitle) > 0
    THEN ("title" :> (title \o Chars(": ") \o subtitle)) @@ md
    ELSE IF Len(title) > 0
    THEN ("title" :> title) @@ md
    ELSE md

\* the title made ASCII, the blank lines after the heading, and its end
CloseFirstHeading(b, md) ==
    IF "title" \notin DOMAIN md
    THEN [b EXCEPT !.err = "KeyError"]
    ELSE Push(AddEmptyLines(
                  [b EXCEPT !.metadata =
                       [md EXCEPT !["title"] = AsciiOnly(md["title"])]]),
              Chars("</div>"))

\* the first # heading, from the state a after the title line and its blank lines
FirstHeadingAfter(title, a) ==
    CloseFirstHeading(WithSubtitle(a),
                      TitleMetadata(title, Subtitle(a), a.metadata))

\* the first # heading, given its title
FirstHeadingTitled(st, title) ==
    FirstHeadingAfter(title,
        AddEmptyLines(Push(Push([st EXCEPT !.got_title = TRUE], HeadingOpen),
                           Element(title, "h1", "title"))))

\* the branch for the first # heading: the title, and the subtitle after it
FirstHeading(st) == FirstHeadingTitled(st, Strip(Drop(st.doc[st.i], 1)))

\* the branch for a later # heading
LaterHeading(st) ==
    Push(AddEmptyLines(Push(Push(st, HeadingOpen),
                            Element(Drop(st.doc[st.i], 2), "h1", ""))),
         Chars("</div>"))

\* the number of lines of the run of list items that starts at line i
ListRun(lines, i) ==
    Max({k \in 1..(Len(lines) - i + 1) :
            \A j \in i..(i + k - 1) : StartsWith(lines[j], Chars("* "))})

\* one <ul> for a run of n list items
ListOf(st, n) ==
    [st EXCEPT
        !.i = st.i + n - 1,
        !.body = st.body \o <<Chars("<ul>")>>
                 \o [k \in 1..n |->
                        Element(Drop(st.doc[st.i + k - 1], 2), "li", "")]
                 \o <<Chars("</ul>")>>]

\* the branch for list items: one <ul> for the whole run
ListItems(st) == ListOf(st, ListRun(st.doc, st.i))

\* f'=> {link}{"  " if label else ""}{label}'
LinkLine(link, label) ==
    Chars("=> ") \o link \o (IF Len(label) > 0 THEN Chars("  ") ELSE <<>>)
    \o label

\* is_site_relative(link)
IsSiteRelative(link, md) ==
    UrlParse(link).netloc =
        UrlParse(IF "url" \in DOMAIN md THEN md["url"] ELSE <<>>).netloc

\* the css class of a link: its scheme and _internal
SiteClass(link, md, scheme) ==
    IF IsSiteRelative(link, md)
    THEN scheme \o (IF Len(scheme) > 0 THEN <<" ">> ELSE <<>>) \o Chars("_internal")
    ELSE scheme

\* the css class of a link: _nolabel
LabelClass(label, cls) ==
    IF Len(label) = 0
    THEN cls \o (IF Len(cls) > 0 THEN <<" ">> ELSE <<>>) \o Chars("_nolabel")
    ELSE cls

\* the <a> element of a link
Anchor(link, label, cls) ==
    Chars("<a href=\"") \o link \o Chars("\" class=\"") \o cls
    \o Chars("\"><p><span class=\"label\">")
    \o HtmlEscape(IF Len(label) = 0 THEN HtmlEscape(link) ELSE label)
    \o Chars("</span> <br /><span class=\"url\">")
    \o HtmlEscape(link) \o Chars("</span></p></a>")

\* a variant of LinkAdded that writes every link line anew, changed or not
LinkAddedAlways(st, link, label, changed) ==
    Push([st EXCEPT !.doc[st.i] = LinkLine(link, label)],
         Anchor(link, label,
                LabelClass(label, SiteClass(link, st.metadata,
                                            UrlParse(link).scheme))))

\* the link line with its final link: rewritten in the source if the link
\* changed, and added to the body
LinkAdded(st, link, label, changed) ==
    Push([st EXCEPT !.doc[st.i] = IF changed THEN LinkLine(link, label) ELSE @],
         Anchor(link, label,
                LabelClass(label, SiteClass(link, st.metadata,
                                            UrlParse(link).scheme))))

\* urljoin against the url of the metadata, with gemini: handled as the code does
Resolved(base, link) ==
    IF StartsWith(base, Chars("gemini://"))
    THEN Chars("gemini:") \o UrlJoin(Drop(base, 7), link)
    ELSE UrlJoin(base, link)

\* the second rewriting: a link without a scheme is joined to the url
IsRelative(st, link) ==
    "url" \in DOMAIN st.metadata /\ Len(UrlParse(link).scheme) = 0

LinkJoined(st, link, label, changed) ==
    LinkAdded(st,
              IF IsRelative(st, link) THEN Resolved(st.metadata["url"], link)
              ELSE link,
              label, changed \/ IsRelative(st, link))

\* the first rewriting: without a url, a link //host/path becomes gemini://host/path
IsSchemeless(st, link) ==
    "url" \notin DOMAIN st.metadata /\ StartsWith(link, Chars("//"))

LinkSplit(st, link, label) ==
    LinkJoined(st, IF IsSchemeless(st, link) THEN Chars("gemini:") \o link ELSE link,
               label, IsSchemeless(st, link))

\* the link line, given the fields of line[2:].strip().split(maxsplit=1)
LinkFields(st, fields) ==
    IF Len(fields) = 0 THEN [st EXCEPT !.err = "ValueError"]
    ELSE LinkSplit(st, fields[1], IF Len(fields) > 1 THEN fields[2] ELSE <<>>)

\* the branch for => link lines
LinkBranch(st) == LinkFields(st, Split1(LStrip(Drop(st.doc[st.i], 2))))

\* the branch that the line takes
ParseBranch(st, line) ==
    IF st.preformatted /\ StartsWith(line, Toggle)
    THEN [Push(st, Chars("</pre>")) EXCEPT !.preformatted = FALSE,
                                           !.doc[st.i] = Toggle]
    ELSE IF st.preformatted THEN Push(st, Element(line, "", ""))
    ELSE IF StartsWith(line, Toggle)
    THEN (IF st.i + 1 <= Len(st.doc) /\ StartsWith(st.doc[st.i + 1], Toggle)
          THEN [st EXCEPT !.i = st.i + 1]
          ELSE [Push(st, Chars("<pre>")) EXCEPT !.preformatted = TRUE])
    ELSE IF StartsWith(line, Chars("###")) THEN Heading(st, 3, "h3")
    ELSE IF StartsWith(line, Chars("##")) THEN Heading(st, 2, "h2")
    ELSE IF StartsWith(line, Chars("#"))
    THEN (IF ~st.got_title THEN FirstHeading(st) ELSE LaterHeading(st))
    ELSE IF StartsWith(line, Chars(">"))
    THEN Push(st, Element(Drop(line, 1), "blockquote", ""))
    ELSE IF StartsWith(line, Chars("* ")) THEN ListItems(st)
    ELSE IF StartsWith(line, Chars("=>")) THEN LinkBranch(st)
    ELSE IF IsBlank(line) THEN Push(st, Chars("<br />"))
    ELSE Push(st, Element(line, "p", ""))

\* the i += 1 that ends an iteration
NextLine(st) == [st EXCEPT !.i = st.i + 1]

\* one iteration of the loop over the lines, with its final i += 1
ParseLine(st) == NextLine(ParseBranch(st, st.doc[st.i]))

RECURSIVE ParseLoop(_)
\* while i < len(doc), until the end of the lines or an exception
ParseLoop(st) ==
    IF st.err # "none" \/ st.i > Len(st.doc) THEN st
    ELSE ParseLoop(ParseLine(st))

Separators == {"-", "/", "_"}

\* re.match(r'^([0-9]{4})([-/_])?([0-9]{2})\2([0-9]{2})([^0-9].*)$', name):
\* the reference \2 to a group that matched nothing matches nothing
DateMatches(name) ==
    /\ Len(name) >= 11
    /\ \A k \in {1, 2, 3, 4, 6, 7, 9, 10} : name[k] \in Digits
    /\ name[5] \in Separators
    /\ name[8] = name[5]
    /\ name[11] \notin Digits

\* the author taken from a path /~author/...
AuthorDefault(md, path) ==
    IF "author" \notin DOMAIN md /\ StartsWith(path, Chars("/~"))
    THEN ("author" :> SplitOn(Drop(path, 2), "/")[1]) @@ md
    ELSE md

\* the date taken from the file name
DateDefault(md, name) ==
    IF "date" \notin DOMAIN md /\ DateMatches(name)
    THEN ("date" :> (SubSeq(name, 1, 4) \o <<"-">> \o SubSeq(name, 6, 7)
                     \o <<"-">> \o SubSeq(name, 9, 10))) @@ md
    ELSE md

\* path.split('/')[-1]
LastPart(parts) == parts[Len(parts)]

\* the author and the date taken from the url when metadata lacks them
UrlDefaults(md) ==
    IF "url" \in DOMAIN md /\ Len(md["url"]) > 0
       /\ ("author" \notin DOMAIN md \/ "date" \notin DOMAIN md)
    THEN DateDefault(AuthorDefault(md, UrlParse(md["url"]).path),
                     LastPart(SplitOn(UrlParse(md["url"]).path, "/")))
    ELSE md

Has(md, k) == k \in DOMAIN md /\ Len(md[k]) > 0

\* the <author> of the colophon
ColophonAuthor(md) ==
    IF Has(md, "author")
    THEN Chars("<author>") \o HtmlEscape(md["author"]) \o Chars("</author>")
    ELSE <<>>

\* the <date> of the colophon, after the author a
ColophonDate(md, a) ==
    IF Has(md, "date")
    THEN a \o (IF Len(a) > 0 THEN Chars("<datesep>, </datesep>") ELSE <<>>)
         \o Chars("<date>") \o HtmlEscape(md["date"]) \o Chars("</date>")
    ELSE a

\* the <url> of the colophon, after the author and the date d
ColophonUrl(md, d) ==
    IF Has(md, "url")
    THEN d \o (IF Len(d) > 0 THEN Chars("<urlsep><br /></urlsep>") ELSE <<>>)
         \o Chars("<url><a href=") \o md["url"] \o Chars(">")
         \o HtmlEscape(md["url"]) \o Chars("</a></url>")
    ELSE d

\* the <colophon> of the html head
Colophon(md) == ColophonUrl(md, ColophonDate(md, ColophonAuthor(md)))

\* what parse_gemini returns after the loop, with the metadata out it leaves
ParseOutput(st, out) ==
    [gemini |-> Join(st.doc, <<"\n">>), colophon |-> Colophon(out),
     body |-> st.body, metadata |-> out, err |-> "none"]

\* the end of parse_gemini: the exception of the loop, or the output
ParseResult(st) ==
    IF st.err # "none"
    THEN [gemini |-> <<>>, colophon |-> <<>>, body |-> st.body,
          metadata |-> st.metadata, err |-> st.err]
    ELSE ParseOutput(st, UrlDefaults(st.metadata))

\* parse_gemini(doc, metadata): the exported source gemini, the html (its
\* colophon and its body lines), the metadata as the call leaves it, and the
\* exception that ended the call
parse_gemini(d, md) ==
    ParseResult(ParseLoop([doc |-> SplitLines(d), i |-> 1, preformatted |-> FALSE,
                           got_title |-> FALSE, body |-> <<>>, metadata |-> md,
                           err |-> "none"]))

----------------------------------------------------------------------------
(* GemdocPDFObject: the PDF object parser.  A parsed value is a record with *)
(* a tag t: "b" for a byte string (name, string, number, reference,         *)
(* keyword), "l" for a list of values, "d" for a dictionary.  A dictionary  *)
(* is the sequence of its entries [k, v] in insertion order, as Python's    *)
(* dict keeps them.                                                         *)

\* what \s matches in a bytes pattern
BytesSpace == {" ", "\t", "\n", "\r", "\f", "x0B"}

B(bytes) == [t |-> "b", v |-> bytes]

DictHas(d, k) == \E i \in 1..Len(d) : d[i].k = k

\* d[k]
DictGet(d, k) == d[CHOOSE i \in 1..Len(d) : d[i].k = k].v

\* d[k] = v: a new key goes last, a known key keeps its place
DictSet(d, k, v) ==
    IF DictHas(d, k)
    THEN [i \in 1..Len(d) |-> IF d[i].k = k THEN [k |-> k, v |-> v] ELSE d[i]]
    ELSE Append(d, [k |-> k, v |-> v])

\* d.pop(k), for the dictionary that is left
DictDel(d, k) == SelectSeq(d, LAMBDA e : e.k # k)

RECURSIVE SpanFrom(_, _, _, _)
SpanFrom(s, i, cs, n) ==
    IF i + n <= Len(s) /\ s[i + n] \in cs THEN SpanFrom(s, i, cs, n + 1) ELSE n

\* the length of the run of elements of cs that starts at index i
Span(s, i, cs) == SpanFrom(s, i, cs, 0)

\* the match of \d+\s+\d+\s+ and the tail, given the lengths of its four runs
MatchRuns(s, i, tail, d1, w1, d2, w2) ==
    [ok    |-> /\ d1 > 0 /\ w1 > 0 /\ d2 > 0 /\ w2 > 0
               /\ StartsWithAt(s, tail, i + d1 + w1 + d2 + w2),
     main  |-> SubSeq(s, i, i + d1 - 1),
     sub   |-> SubSeq(s, i + d1 + w1, i + d1 + w1 + d2 - 1),
     after |-> i + d1 + w1 + d2 + w2 + Len(tail)]

MatchSecond(s, i, tail, d1, w1, d2) ==
    MatchRuns(s, i, tail, d1, w1, d2, Span(s, i + d1 + w1 + d2, BytesSpace))

MatchGap(s, i, tail, d1, w1) ==
    MatchSecond(s, i, tail, d1, w1, Span(s, i + d1 + w1, Digits))

MatchFirst(s, i, tail, d1) ==
    MatchGap(s, i, tail, d1, Span(s, i + d1, BytesSpace))

\* the pattern \d+\s+\d+\s+ followed by the literal tail, matched at index i:
\* whether it matches, its two numbers and the index after the match
MatchNumbers(s, i, tail) == MatchFirst(s, i, tail, Span(s, i, Digits))

\* the part of s from index p on, all of s when p = 0
From(s, p) == IF p = 0 THEN s ELSE Drop(s, p - 1)

\* _consume_whitespace(binary)
ConsumeWhitespace(binary) == From(binary, FindClass(binary, BytesSpace, FALSE, 1))

\* _consume_objnum, given the match m of '\d+\s+\d+\s+obj' and the whitespace
\* ws after it
ObjnumMatched(b, m, ws) ==
    IF m.ok /\ ws > 0
    THEN [rest |-> Drop(b, m.after + ws - 1),
          objnum |-> m.main \o <<" ">> \o m.sub \o Chars(" obj"),
          err |-> "none"]
    ELSE [rest |-> b, objnum |-> <<>>, err |-> "Exception"]

ObjnumAt(b, m) == ObjnumMatched(b, m, Span(b, m.after, BytesSpace))

ObjnumIn(b) == ObjnumAt(b, MatchNumbers(b, 1, Chars("obj")))

\* _consume_objnum(binary): the rest and the bytes 'N G obj'
ConsumeObjnum(binary) == ObjnumIn(ConsumeWhitespace(binary))

\* the characters that end a name
NameEnd == BytesSpace \cup {"(", ")", "<", ">", "[", "]", "{", "}", "/", "%"}

\* binary.find(sub, start) in the source's 0-based indices: -1 when absent
Find0(s, sub, start) == Find(s, sub, start + 1) - 1

RECURSIVE ParenScan(_, _, _)
\* the loop of the literal string branch over the next '(' and ')'
ParenScan(binary, o, c) ==
    IF 0 <= o /\ o < c
    THEN ParenScan(binary, Find0(binary, <<"(">>, c + 1),
                   Find0(binary, <<")">>, c + 1))
    ELSE c

\* the length of the literal string that _consume_list takes off the front
ParenEnd(binary) ==
    ParenScan(binary, Find0(binary, <<"(">>, 1), Find0(binary, <<")">>, 1)) + 1

\* dict() filled from the flat list of keys and values
RECURSIVE DictFromList(_, _)
DictFromList(l, d) ==
    IF Len(l) = 0 THEN [dict |-> d, err |-> "none"]
    ELSE IF Len(l) < 2 THEN [dict |-> d, err |-> "Exception"]
    ELSE IF l[1].t # "b" THEN [dict |-> d, err |-> "TypeError"]
    ELSE DictFromList(Drop(l, 2), DictSet(d, l[1].v, l[2]))

\* the length n of an item found by a search that returned p, or the exception
Found(p, back, e) ==
    IF p = 0 THEN [n |-> 0, err |-> e] ELSE [n |-> p - back, err |-> "none"]

\* whether b starts with a name, a string, a reference, a number or a keyword
IsSimpleItem(b) ==
    \/ StartsWith(b, <<"/">>)
    \/ StartsWith(b, <<"(">>)
    \/ StartsWith(b, <<"<">>)
    \/ MatchNumbers(b, 1, <<"R">>).ok
    \/ Len(b) > 0 /\ b[1] \in Digits \cup {"-"}
    \/ StartsWith(b, Chars("null"))
    \/ StartsWith(b, Chars("true"))
    \/ StartsWith(b, Chars("false"))

\* the length of the name, string, reference, number or keyword that b starts
\* with, or the exception its branch raises
SimpleItem(b) ==
    IF StartsWith(b, <<"/">>)
    THEN Found(FindClass(b, NameEnd, TRUE, 2), 1, "AttributeError")
    ELSE IF StartsWith(b, <<"(">>) THEN Found(ParenEnd(b), 0, "NoProgress")
    ELSE IF StartsWith(b, <<"<">>) THEN Found(Find(b, <<">">>, 1), 0, "ValueError")
    ELSE IF MatchNumbers(b, 1, <<"R">>).ok
    THEN Found(Find(b, <<"R">>, 1), 0, "Exception")
    ELSE IF Len(b) > 0 /\ b[1] \in Digits \cup {"-"}
    THEN Found(FindClass(b, Digits \cup {".", "-"}, FALSE, 1), 1, "AttributeError")
    ELSE IF StartsWith(b, Chars("false")) THEN [n |-> 5, err |-> "none"]
    ELSE [n |-> 4, err |-> "none"]

\* the input after a comment
AfterComment(b, p) == IF p = 0 THEN <<>> ELSE Drop(b, p)

RECURSIVE ConsumeItems(_, _, _)
\* a simple item appended to the items, or its exception
SimpleTaken(b, close, d, item) ==
    IF item.err # "none" THEN [rest |-> b, items |-> d, err |-> item.err]
    ELSE ConsumeItems(Drop(b, item.n), close, Append(d, B(Take(b, item.n))))

\* a nested list r appended to the items, or its exception
ListTaken(close, d, r) ==
    IF r.err # "none" THEN [r EXCEPT !.items = d]
    ELSE ConsumeItems(r.rest, close, Append(d, [t |-> "l", v |-> r.items]))

\* a nested dictionary appended to the items, or its exception
DictBuilt(close, d, r, dd) ==
    IF dd.err # "none" THEN [rest |-> r.rest, items |-> d, err |-> dd.err]
    ELSE ConsumeItems(r.rest, close, Append(d, [t |-> "d", v |-> dd.dict]))

DictTaken(close, d, r) ==
    IF r.err # "none" THEN [r EXCEPT !.items = d]
    ELSE DictBuilt(close, d, r, DictFromList(r.items, <<>>))

\* one iteration of the loop of _consume_list, after _consume_whitespace
ConsumeItem(b, close, d) ==
    IF StartsWith(b, <<"%">>)
    THEN ConsumeItems(AfterComment(b, FindClass(b, {"\r", "\n"}, TRUE, 1)),
                      close, d)
    ELSE IF StartsWith(b, <<"[">>)
    THEN ListTaken(close, d, ConsumeItems(Drop(b, 1), <<"]">>, <<>>))
    ELSE IF StartsWith(b, Chars("<<"))
    THEN DictTaken(close, d, ConsumeItems(Drop(b, 2), Chars(">>"), <<>>))
    ELSE IF IsSimpleItem(b) THEN SimpleTaken(b, close, d, SimpleItem(b))
    ELSE IF StartsWith(b, close)
    THEN [rest |-> Drop(b, Len(close)), items |-> d, err |-> "none"]
    ELSE [rest |-> b, items |-> d, err |-> "Exception"]

\* the loop of _consume_list after the opening delimiter: the rest of the
\* input, the items and the exception raised
ConsumeItems(binary, close, d) == ConsumeItem(ConsumeWhitespace(binary), close, d)

\* _consume_list, after _consume_whitespace
ListIn(b, open, close) ==
    IF ~StartsWith(b, open)
    THEN [rest |-> b, items |-> <<>>, err |-> "Exception"]
    ELSE ConsumeItems(Drop(b, Len(open)), close, <<>>)

\* _consume_list(binary, delim)
ConsumeList(binary, open, close) == ListIn(ConsumeWhitespace(binary), open, close)

\* _consume_dictionary, given the list r of its keys and values
DictionaryOf(r) ==
    IF r.err # "none" THEN [rest |-> r.rest, dict |-> <<>>, err |-> r.err]
    ELSE [rest |-> r.rest, dict |-> DictFromList(r.items, <<>>).dict,
          err |-> DictFromList(r.items, <<>>).err]

\* _consume_dictionary(binary)
ConsumeDictionary(binary) ==
    DictionaryOf(ConsumeList(binary, Chars("<<"), Chars(">>")))

\* the fields of a GemdocPDFObject under construction
ObjectFields(n, dd, kind, data, e) ==
    [objnum |-> n.objnum, dictionary |-> dd.dict, kind |-> kind, data |-> data,
     err |-> e]

\* the _stream of an object, up to the first endstream
StreamUpTo(n, dd, b, endstream) ==
    IF endstream = 0 THEN ObjectFields(n, dd, "stream", <<>>, "Exception")
    ELSE ObjectFields(n, dd, "stream", SubSeq(b, 8, endstream - 1), "none")

\* the _contents of an object, up to the first endobj
ContentsUpTo(n, dd, b, endobj) ==
    IF endobj = 0 THEN ObjectFields(n, dd, "contents", <<>>, "Exception")
    ELSE ObjectFields(n, dd, "contents", Take(b, endobj - 1), "none")

\* the body b of an object, after the dictionary
ObjectBody(n, dd, b) ==
    IF StartsWith(b, Chars("stream\n"))
    THEN StreamUpTo(n, dd, b, Find(b, Chars("endstream"), 1))
    ELSE ContentsUpTo(n, dd, b, Find(b, Chars("endobj"), 1))

\* the object, given its number n and its dictionary dd
ObjectAfterDictionary(n, dd) ==
    IF n.err # "none" THEN ObjectFields(n, dd, "contents", <<>>, n.err)
    ELSE IF dd.err # "none" THEN ObjectFields(n, dd, "contents", <<>>, dd.err)
    ELSE ObjectBody(n, dd, ConsumeWhitespace(dd.rest))

\* the object, given its number n
ObjectAfterObjnum(n) ==
    ObjectAfterDictionary(n,
        IF StartsWith(n.rest, Chars("<<")) THEN ConsumeDictionary(n.rest)
        ELSE [rest |-> n.rest, dict |-> <<>>, err |-> "none"])

\* GemdocPDFObject(binary): _objnum, dictionary and either _stream or
\* _contents (kind tells which: the other one is None)
GemdocPDFObject(binary) == ObjectAfterObjnum(ConsumeObjnum(binary))

\* GemdocPDFTrailer(binary)
GemdocPDFTrailer(binary) ==
    GemdocPDFObject(Chars("0 0 obj\n") \o binary \o Chars("\nendobj"))

----------------------------------------------------------------------------
(* Byte values, base64.a85encode and zlib.compress.                         *)

UpperHex == Chars("0123456789ABCDEF")

\* the number of a byte
ByteValue(b) ==
    IF Len(b) = 3
    THEN 16 * HexValue(SubSeq(b, 2, 2)) + HexValue(SubSeq(b, 3, 3))
    ELSE CodePoint(b)

\* the byte of a number
ByteOf(n) ==
    IF n \in 32..126 \/ n \in {9, 10, 13} THEN CharOf(n)
    ELSE "x" \o UpperHex[(n \div 16) + 1] \o UpperHex[(n % 16) + 1]

\* a 32-bit word, given as its four bytes, divided by 85: the quotient as
\* four bytes and the remainder (the model's integers have 32 bits with the
\* sign, so the word is never held as one number)
DivMod85(w) ==
    LET r1 == w[1] % 85
        r2 == (256 * r1 + w[2]) % 85
        r3 == (256 * r2 + w[3]) % 85
    IN  [q |-> <<w[1] \div 85, (256 * r1 + w[2]) \div 85,
                 (256 * r2 + w[3]) \div 85, (256 * r3 + w[4]) \div 85>>,
         r |-> (256 * r3 + w[4]) % 85]

RECURSIVE A85Digits(_, _)
\* the last k base-85 digits of a word, most significant digit first
A85Digits(w, k) ==
    IF k = 0 THEN <<>>
    ELSE Append(A85Digits(DivMod85(w).q, k - 1), CharOf(33 + DivMod85(w).r))

\* the five characters of one 32-bit word
A85Word(w) == A85Digits(w, 5)

\* byte i of the input padded with zero bytes
A85Byte(s, i) == IF i <= Len(s) THEN ByteValue(s[i]) ELSE 0

\* the k-th word of four bytes
A85Input(s, k) ==
    <<A85Byte(s, 4 * k - 3), A85Byte(s, 4 * k - 2), A85Byte(s, 4 * k - 1),
      A85Byte(s, 4 * k)>>

\* the characters of one word: a zero word makes 'z', and the last word loses
\* one character per byte of padding
A85Chunk(w, last, padding) ==
    IF last /\ padding > 0 THEN Take(A85Word(w), 5 - padding)
    ELSE IF w = <<0, 0, 0, 0>> THEN <<"z">>
    ELSE A85Word(w)

\* the characters of the n words of s
A85Chunks(s, n) ==
    Flatten([k \in 1..n |-> A85Chunk(A85Input(s, k), k = n, 4 * n - Len(s))])

\* base64.a85encode(s): four bytes make five characters
A85Encode(s) == A85Chunks(s, (Len(s) + 3) \div 4)

RECURSIVE Adler(_, _, _, _)
\* zlib's Adler-32 checksum of s, as its two 16-bit halves <<b, a>>
Adler(s, i, a, b) ==
    IF i > Len(s) THEN <<b, a>>
    ELSE Adler(s, i + 1, (a + ByteValue(s[i])) % 65521,
               (b + a + ByteValue(s[i])) % 65521)

\* the zlib stream that holds the n bytes of s in one stored block, with the
\* length, its complement and the checksum sum
ZlibStored(s, n, sum) ==
    <<ByteOf(120), ByteOf(1), ByteOf(1),
      ByteOf(n % 256), ByteOf(n \div 256),
      ByteOf(255 - (n % 256)), ByteOf(255 - (n \div 256))>>
    \o s
    \o <<ByteOf(sum[1] \div 256), ByteOf(sum[1] % 256),
         ByteOf(sum[2] \div 256), ByteOf(sum[2] % 256)>>

\* zlib.compress(s), for data of less than 65536 bytes.  The deflate coding
\* is not modelled: the result is the zlib stream that holds s in one stored
\* block, with the length, its complement and the checksum zlib writes.
ZlibCompress(s) == ZlibStored(s, Len(s), Adler(s, 1, 1, 0))

RECURSIVE JoinTokens(_, _, _)
JoinTokens(s, lo, hi) ==
    IF lo > hi THEN ""
    ELSE IF lo = hi THEN s[lo]
    ELSE LET mid == (lo + hi) \div 2
         IN  JoinTokens(s, lo, mid) \o JoinTokens(s, mid + 1, hi)

\* sha256(b).hexdigest().  The digest is not computed: its 64 hexadecimal
\* digits are stood for by one token that names the bytes hashed, so that
\* equal bytes give equal digests and different bytes different ones.
Sha256Hex(b) == <<"sha256<" \o JoinTokens(b, 1, Len(b)) \o ">">>

----------------------------------------------------------------------------
(* Serialization of objects.                                                *)

Keywords == {Chars("null"), Chars("true"), Chars("false")}

\* lstrip(b' ') and rstrip(b' ')
LStripSpaces(s) == Drop(s, Span(s, 1, {" "}))

RStripSpaces(s) == Take(s, LastOutside(s, {" "}, 1, Len(s)))

\* _serialize_list: binary.lstrip(b' ') after an opening delimiter
LStripAfter(joined, open) ==
    IF open \in {<<"[">>, Chars("<<")} THEN LStripSpaces(joined) ELSE joined

\* _serialize_list: binary.rstrip(b' ') before a closing delimiter
RStripAfter(joined, close) ==
    IF close \in {<<"]">>, Chars(">>")} THEN RStripSpaces(joined) ELSE joined

RECURSIVE SerializeItem(_)
RECURSIVE SerializeList(_, _, _)
RECURSIVE SerializeDictionary(_)

\* what the loop of _serialize_list makes of one item
SerializeItem(v) ==
    IF v.t = "d" THEN SerializeDictionary(v.v)
    ELSE IF v.t = "l" THEN SerializeList(v.v, <<"[">>, <<"]">>)
    ELSE IF (Len(v.v) > 0 /\ v.v[1] \in Digits \cup {"-"}) \/ v.v \in Keywords
    THEN <<" ">> \o v.v
    ELSE v.v

\* _serialize_list(l, delim)
SerializeList(l, open, close) ==
    open
    \o RStripAfter(LStripAfter(Flatten([i \in 1..Len(l) |-> SerializeItem(l[i])]),
                               open),
                   close)
    \o close

\* _serialize_dictionary(dictionary)
SerializeDictionary(d) ==
    Chars("<<")
    \o Flatten([i \in 1..Len(d) |-> d[i].k \o SerializeList(<<d[i].v>>, <<>>, <<>>)])
    \o Chars(">>")

\* self.dictionary.pop(b'/Filter', list())
PoppedFilter(d) ==
    IF DictHas(d, Chars("/Filter")) THEN DictGet(d, Chars("/Filter"))
    ELSE [t |-> "l", v |-> <<>>]

\* if type(filterlist) == bytes: filterlist = [filterlist]
FilterList(popped) == IF popped.t = "b" THEN <<popped>> ELSE popped.v

\* the filters of the serialized object
StreamFilters(obj, flateencode, flist) ==
    IF obj.kind = "stream"
    THEN <<B(Chars("/ASCII85Decode"))>>
         \o (IF flateencode THEN <<B(Chars("/FlateDecode"))>> ELSE <<>>)
         \o flist
    ELSE flist

\* the dictionary with its /Filter entry
WithFilter(d, flist) ==
    IF Len(flist) = 0 THEN d
    ELSE DictSet(d, Chars("/Filter"),
                 IF Len(flist) = 1 THEN flist[1] ELSE [t |-> "l", v |-> flist])

\* the dictionary the object is serialized with, before /Length is looked at
FilteredDictionary(obj, flateencode) ==
    WithFilter(DictDel(obj.dictionary, Chars("/Filter")),
               StreamFilters(obj, flateencode,
                             FilterList(PoppedFilter(obj.dictionary))))

\* the encoded stream may not start with the preformatting toggle
Spaced(encoded) ==
    IF StartsWith(encoded, Toggle) THEN <<" ">> \o encoded ELSE encoded

\* the stream, compressed if asked for and ASCII85 encoded
EncodedStream(data, flateencode) ==
    Spaced(A85Encode(IF flateencode THEN ZlibCompress(data) ELSE data)
           \o Chars("~>"))

\* the dictionary with the /Length of the stream and without /Length1
WithLength(d, stream) ==
    DictDel(IF DictHas(d, Chars("/Length"))
            THEN DictSet(d, Chars("/Length"), B(IntStr(Len(stream))))
            ELSE d,
            Chars("/Length1"))

\* the stream between its keywords, or the contents with \n made \r
ObjectData(obj, stream) ==
    IF obj.kind = "stream"
    THEN Chars("\rstream\n") \o stream \o Chars("\rendstream\r")
    ELSE Replace(obj.data, <<"\n">>, <<"\r">>)

DictionaryBytes(d) == IF Len(d) > 0 THEN SerializeDictionary(d) ELSE <<>>

\* if not binary.endswith(b'\r'): binary += b'\r'
Closed(binary) == IF EndsWith(binary, <<"\r">>) THEN binary ELSE binary \o <<"\r">>

\* serialize, given the popped /Filter, the dictionary d and the stream
ObjectSerialized(obj, popped, d, stream) ==
    IF obj.kind = "stream" /\ popped.t = "d"
    THEN [bytes |-> <<>>, err |-> "AttributeError"]
    ELSE IF obj.kind # "stream" /\ DictHas(d, Chars("/Length"))
    THEN [bytes |-> <<>>, err |-> "UnboundLocalError"]
    ELSE [bytes |-> Closed(obj.objnum \o <<"\r">>
                           \o DictionaryBytes(WithLength(d, stream))
                           \o ObjectData(obj, stream))
                    \o Chars("endobj\r"),
          err |-> "none"]

\* GemdocPDFObject.serialize(flateencode): the bytes, or the exception
ObjectSerialize(obj, flateencode) ==
    ObjectSerialized(obj, PoppedFilter(obj.dictionary),
                     FilteredDictionary(obj, flateencode),
                     EncodedStream(obj.data, flateencode))

\* GemdocPDFTrailer.serialize()
TrailerSerialize(trailer) ==
    Chars("trailer\r") \o SerializeDictionary(trailer.dictionary) \o <<"\r">>

----------------------------------------------------------------------------
(* GemdocPDF: the object table _objects (the entries [num, obj] in the      *)
(* order Python's dict keeps them, the order of first insertion), _trailer, *)
(* _gemini (with has_gemini FALSE for None), the two hashes and the         *)
(* exception that ended the last call.                                      *)

ObjHas(objects, n) == \E i \in 1..Len(objects) : objects[i].num = n

ObjGet(objects, n) == objects[CHOOSE i \in 1..Len(objects) : objects[i].num = n].obj

\* a variant of ObjSet that keeps the table in the order of the numbers
ObjSetSorted(objects, n, o) ==
    IF ObjHas(objects, n)
    THEN [i \in 1..Len(objects) |->
             IF objects[i].num = n THEN [num |-> n, obj |-> o] ELSE objects[i]]
    ELSE SelectSeq(objects, LAMBDA e : e.num < n)
         \o <<[num |-> n, obj |-> o]>>
         \o SelectSeq(objects, LAMBDA e : e.num > n)

\* self._objects[n] = o: a new key goes to the end of the dict
ObjSet(objects, n, o) ==
    IF ObjHas(objects, n)
    THEN [i \in 1..Len(objects) |->
             IF objects[i].num = n THEN [num |-> n, obj |-> o] ELSE objects[i]]
    ELSE Append(objects, [num |-> n, obj |-> o])

ObjNums(objects) == {objects[i].num : i \in 1..Len(objects)}

\* binary[:n] with the slice's clamping
TakeUpTo(s, n) == Take(s, IF n < Len(s) THEN n ELSE Len(s))

\* _discard_pre_obj(binary): the input from the first match of \d+\s+\d+\s+o
RECURSIVE FirstObj(_, _, _)
FirstObj(binary, lo, hi) ==
    IF lo > hi THEN 0
    ELSE IF lo = hi
    THEN (IF binary[lo] \in Digits /\ MatchNumbers(binary, lo, <<"o">>).ok
          THEN lo ELSE 0)
    ELSE LET mid  == (lo + hi) \div 2
             left == FirstObj(binary, lo, mid)
         IN  IF left # 0 THEN left ELSE FirstObj(binary, mid + 1, hi)

\* the input from the match at index hit, nothing without a match
FromMatch(binary, hit) == IF hit = 0 THEN <<>> ELSE Drop(binary, hit - 1)

DiscardPreObj(binary) == FromMatch(binary, FirstObj(binary, 1, Len(binary)))

\* binary.find(b'endobj') + 6, as a length: 5 when there is no endobj
ObjEnd(found) == IF found = 0 THEN 5 ELSE found + 5

\* _consume_obj, given the match m of its pattern and the end of the object
ObjTaken(binary, m, endobj) ==
    IF ~m.ok
    THEN [objnum |-> 0, obj |-> <<>>, rest |-> binary, err |-> "AttributeError"]
    ELSE IF m.sub # <<"0">>
    THEN [objnum |-> 0, obj |-> <<>>, rest |-> binary, err |-> "Exception"]
    ELSE [objnum |-> ParseInt(m.main),
          obj |-> TakeUpTo(binary, endobj) \o <<"\n">>,
          rest |-> Drop(binary, endobj), err |-> "none"]

\* _consume_obj(binary): the object number, the object's bytes and the rest
ConsumeObj(binary) ==
    ObjTaken(binary,
             MatchNumbers(binary, Span(binary, 1, BytesSpace) + 1, Chars("obj")),
             ObjEnd(Find(binary, Chars("endobj"), 1)))

\* what the loop of __init__ leaves when it ends
LoopEnd(objects, trailer, e) == [objects |-> objects, trailer |-> trailer, err |-> e]

\* re.match(rb'^[\r\n]*xref', binary)
AtXref(binary) ==
    StartsWithAt(binary, Chars("xref"), Span(binary, 1, {"\r", "\n"}) + 1)

\* binary[eof+5:] if eof > -1 else b''
AfterEof(binary, eof) == IF eof > -1 THEN Drop(binary, eof + 5) ELSE <<>>

RECURSIVE PdfLoop(_, _, _)
\* the xref branch, with the trailer it parsed
TrailerParsed(binary, objects, trailer, parsed_trailer) ==
    IF parsed_trailer.err # "none" THEN LoopEnd(objects, trailer, parsed_trailer.err)
    ELSE PdfLoop(AfterEof(binary, Find0(binary, Chars("%%EOF"), 0)), objects,
                 parsed_trailer)

\* the xref branch, with the indices s of 'trailer' and e of 'startxref'
XrefSection(binary, objects, trailer, s, e) ==
    IF 0 <= s /\ s < e - 1
    THEN TrailerParsed(binary, objects, trailer,
                       GemdocPDFTrailer(SubSeq(binary, s + 8, e - 1)))
    ELSE PdfLoop(AfterEof(binary, Find0(binary, Chars("%%EOF"), 0)), objects,
                 trailer)

\* the object branch, with the object c taken off the input and parsed as o
ObjectParsed(objects, trailer, c, o) ==
    IF o.err # "none" THEN LoopEnd(objects, trailer, o.err)
    ELSE PdfLoop(c.rest, ObjSet(objects, c.objnum, o), trailer)

ObjectConsumed(objects, trailer, c) ==
    IF c.err # "none" THEN LoopEnd(objects, trailer, c.err)
    ELSE ObjectParsed(objects, trailer, c, GemdocPDFObject(c.obj))

\* the object branch, with the input b that starts at the next object
ObjectSection(objects, trailer, b) ==
    IF Len(b) = 0 THEN LoopEnd(objects, trailer, "none")
    ELSE ObjectConsumed(objects, trailer, ConsumeObj(b))

\* the loop of GemdocPDF.__init__ over the input
PdfLoop(binary, objects, trailer) ==
    IF Len(binary) = 0 THEN LoopEnd(objects, trailer, "none")
    ELSE IF AtXref(binary)
    THEN XrefSection(binary, objects, trailer,
                     Find0(binary, Chars("trailer"), 0),
                     Find0(binary, Chars("startxref"), 0))
    ELSE ObjectSection(objects, trailer, DiscardPreObj(binary))

\* _make_utf16_string(s)
MakeUtf16String(s) == Chars("<feff") \o Utf16beHex(s) \o <<">">>

\* the object number at the head of an indirect reference 'N 0 R'
RefNum(ref) == ParseInt(Split1(ref)[1])

RefTo(n) == IntStr(n) \o Chars(" 0 R")

\* the Filespec object of the attachment
Filespec(gemini_objnum, filename) ==
    GemdocPDFObject(
        IntStr(gemini_objnum + 1) \o Chars(" 0 obj\r")
        \o Chars("<</Type/Filespec/AFRelationship/Source")
        \o Chars("/F") \o MakeUtf16String(filename)
        \o Chars("/UF") \o MakeUtf16String(filename)
        \o Chars("/EF<</F ") \o IntStr(gemini_objnum) \o Chars(" 0 R>>")
        \o Chars(">>\nendobj\r"))

\* root[b'/Names'] = {b'/EmbeddedFiles': {b'/Names': [name, reference]}}
Names(filename, filespec_objnum) ==
    [t |-> "d", v |-> <<[k |-> Chars("/EmbeddedFiles"),
      v |-> [t |-> "d", v |-> <<[k |-> Chars("/Names"),
        v |-> [t |-> "l", v |-> <<B(MakeUtf16String(filename)),
                                   B(RefTo(filespec_objnum))>>]]>>]]>>]

\* if b'/AF' not in root.keys(): root[b'/AF'] = list()
WithAF(root) ==
    IF DictHas(root, Chars("/AF")) THEN root
    ELSE DictSet(root, Chars("/AF"), [t |-> "l", v |-> <<>>])

\* root[b'/AF'].append(reference)
AFAppended(root, filespec_objnum) ==
    DictSet(root, Chars("/AF"),
            [t |-> "l",
             v |-> Append(DictGet(root, Chars("/AF")).v, B(RefTo(filespec_objnum)))])

\* a variant of NewSize that counts the Filespec's number as the size
NewSizeShort(filespec_objnum) == filespec_objnum

\* new_size = str(filespec_objnum+1)
NewSize(filespec_objnum) == filespec_objnum + 1

\* _make_attachment, with the table objects that holds the Filespec and the
\* root dictionary that holds /Names and /AF
AttachmentAdded(pdf, root_num, rootobj, filespec_objnum, objects, root) ==
    IF DictGet(root, Chars("/AF")).t # "l"
    THEN [pdf EXCEPT !.objects = objects, !.err = "AttributeError"]
    ELSE [pdf EXCEPT
             !.objects = ObjSet(objects, root_num,
                                [rootobj EXCEPT !.dictionary =
                                     AFAppended(root, filespec_objnum)]),
             !.trailer.dictionary =
                 DictSet(pdf.trailer.dictionary, Chars("/Size"),
                         B(IntStr(NewSize(filespec_objnum))))]

\* _make_attachment, with the root object
AttachmentRoot(pdf, gemini_objnum, filename, root_num, rootobj) ==
    AttachmentAdded(pdf, root_num, rootobj, gemini_objnum + 1,
        ObjSet(pdf.objects, gemini_objnum + 1, Filespec(gemini_objnum, filename)),
        WithAF(DictSet(rootobj.dictionary, Chars("/Names"),
                       Names(filename, gemini_objnum + 1))))

\* _make_attachment, with the number of the root object
AttachmentAt(pdf, gemini_objnum, filename, root_num) ==
    IF ~ObjHas(pdf.objects, root_num) THEN [pdf EXCEPT !.err = "KeyError"]
    ELSE AttachmentRoot(pdf, gemini_objnum, filename, root_num,
                        ObjGet(pdf.objects, root_num))

\* _make_attachment(gemini_objnum, gemini_filename)
MakeAttachment(pdf, gemini_objnum, filename) ==
    IF \/ ~DictHas(pdf.trailer.dictionary, Chars("/Root"))
       \/ DictGet(pdf.trailer.dictionary, Chars("/Root")).t # "b"
    THEN [pdf EXCEPT !.err = "AttributeError"]
    ELSE AttachmentAt(pdf, gemini_objnum, filename,
                      RefNum(DictGet(pdf.trailer.dictionary, Chars("/Root")).v))

\* the fields of a GemdocPDF after the loop p of __init__
PdfFields(has_gemini, gemini, binary, flateencode, p) ==
    [gemini_hash |-> IF has_gemini THEN Sha256Hex(Encode(gemini)) ELSE <<>>,
     binary_hash |-> Sha256Hex(binary),
     flateencode_streams |-> flateencode,
     has_gemini |-> has_gemini, gemini |-> gemini,
     objects |-> p.objects, trailer |-> p.trailer,
     gemini_objnum |-> 0, err |-> p.err]

\* the end of __init__: the attachment of the source
PdfAttached(pdf, filename, gemini_objnum) ==
    MakeAttachment([pdf EXCEPT !.gemini_objnum = gemini_objnum], gemini_objnum,
                   filename)

PdfParsed(pdf, filename) ==
    IF pdf.err # "none" \/ ~pdf.has_gemini THEN pdf
    ELSE IF Len(pdf.objects) = 0 THEN [pdf EXCEPT !.err = "ValueError"]
    ELSE PdfAttached(pdf, filename, Max(ObjNums(pdf.objects)) + 1)

\* GemdocPDF(gemini, binary, gemini_filename, flateencode_streams); gemini is
\* None when has_gemini is FALSE
GemdocPDF(has_gemini, gemini, binary, filename, flateencode) ==
    PdfParsed(PdfFields(has_gemini, gemini, binary, flateencode,
                        PdfLoop(binary, <<>>, GemdocPDFTrailer(<<>>))),
              filename)

\* the dictionary, nested lists serialized in place as _serialize_list leaves
\* them when it is handed the dictionary itself and not a copy of it
RECURSIVE SerializedInPlace(_)
SerializedInPlace(d) ==
    [i \in 1..Len(d) |->
        [k |-> d[i].k,
         v |-> IF d[i].v.t = "l"
               THEN [t |-> "l", v |-> [j \in 1..Len(d[i].v.v) |->
                                          B(SerializeItem(d[i].v.v[j]))]]
               ELSE IF d[i].v.t = "d"
               THEN [t |-> "d", v |-> SerializedInPlace(d[i].v.v)]
               ELSE d[i].v]]

\* the metadata keys that set_metadata and get_metadata translate, in the
\* order in which the model walks a metadata mapping
MetadataKeys == <<"author", "title", "date", "url", "subject", "keywords">>

InfoKey(k) ==
    CASE k = "author"   -> Chars("/Author")
      [] k = "title"    -> Chars("/Title")
      [] k = "date"     -> Chars("/PublishingDate")
      [] k = "url"      -> Chars("/URL")
      [] k = "subject"  -> Chars("/Subject")
      [] k = "keywords" -> Chars("/Keywords")

\* _info_dict(), given the number of the Info object
InfoAt(pdf, num) ==
    IF ~ObjHas(pdf.objects, num) THEN [num |-> 0, err |-> "KeyError"]
    ELSE [num |-> num, err |-> "none"]

\* _info_dict(): the number of the Info object, or the exception
InfoDict(pdf) ==
    IF \/ ~DictHas(pdf.trailer.dictionary, Chars("/Info"))
       \/ DictGet(pdf.trailer.dictionary, Chars("/Info")).t # "b"
    THEN [num |-> 0, err |-> "AttributeError"]
    ELSE InfoAt(pdf, RefNum(DictGet(pdf.trailer.dictionary, Chars("/Info")).v))

\* the table with the Info object's dictionary replaced
WithInfo(pdf, num, info) ==
    [pdf EXCEPT !.objects =
        ObjSet(pdf.objects, num,
               [ObjGet(pdf.objects, num) EXCEPT !.dictionary = info])]

RECURSIVE SetEntries(_, _, _)
SetEntries(info, md, i) ==
    IF i > Len(MetadataKeys) THEN info
    ELSE SetEntries(
             IF MetadataKeys[i] \in DOMAIN md
             THEN DictSet(info, InfoKey(MetadataKeys[i]),
                          B(MakeUtf16String(md[MetadataKeys[i]])))
             ELSE info,
             md, i + 1)

\* the Info dictionary without its empty strings
Kept(info) == SelectSeq(info, LAMBDA e : e.v # B(Chars("()")))

\* set_metadata, given the Info object ref
SetMetadataAt(pdf, md, ref) ==
    IF ref.err # "none" THEN [pdf EXCEPT !.err = ref.err]
    ELSE WithInfo(pdf, ref.num,
                  SetEntries(Kept(ObjGet(pdf.objects, ref.num).dictionary), md, 1))

\* set_metadata(metadata)
SetMetadata(pdf, md) == SetMetadataAt(pdf, md, InfoDict(pdf))

HexDigits == {HexChars[i] : i \in 1..16} \cup {"A", "B", "C", "D", "E", "F"}

\* the value get_metadata reads from one entry of the Info dictionary
MetadataValue(v) ==
    LET inner == SubSeq(v.v, 2, Len(v.v) - 1)
    IN  IF v.t # "b" THEN [set |-> FALSE, value |-> <<>>, err |-> "AttributeError"]
        ELSE IF Len(v.v) >= 2 /\ v.v[1] = "(" /\ v.v[Len(v.v)] = ")"
        THEN (IF \E i \in 1..Len(inner) : Len(inner[i]) > 1
              THEN [set |-> FALSE, value |-> <<>>, err |-> "UnicodeDecodeError"]
              ELSE [set |-> TRUE, value |-> inner, err |-> "none"])
        ELSE IF Len(v.v) >= 2 /\ v.v[1] = "<" /\ v.v[Len(v.v)] = ">"
        THEN (IF (\E i \in 1..Len(inner) : inner[i] \notin HexDigits)
                 \/ Len(inner) % 2 # 0
              THEN [set |-> FALSE, value |-> <<>>, err |-> "ValueError"]
              ELSE IF Len(inner) % 4 # 0
              THEN [set |-> FALSE, value |-> <<>>, err |-> "UnicodeDecodeError"]
              ELSE [set |-> TRUE, value |-> FromHexUtf16(inner), err |-> "none"])
        ELSE [set |-> FALSE, value |-> <<>>, err |-> "none"]

\* the metadata keys that an Info key stands for
KeysOf(k) ==
    {MetadataKeys[j] : j \in {j \in 1..Len(MetadataKeys) :
                                  InfoKey(MetadataKeys[j]) = k}}

RECURSIVE GetEntries(_, _, _)
\* one entry of the Info dictionary, with its metadata keys and its value
EntryRead(info, i, md, keys, val) ==
    IF keys = {} THEN GetEntries(info, i + 1, md)
    ELSE IF val.err # "none" THEN [metadata |-> md, err |-> val.err]
    ELSE IF val.set
    THEN GetEntries(info, i + 1, ((CHOOSE k \in keys : TRUE) :> val.value) @@ md)
    ELSE GetEntries(info, i + 1, md)

\* the loop of get_metadata over the Info dictionary
GetEntries(info, i, md) ==
    IF i > Len(info) THEN [metadata |-> md, err |-> "none"]
    ELSE EntryRead(info, i, md, KeysOf(info[i].k), MetadataValue(info[i].v))

\* get_metadata, given the Info object ref
GetMetadataAt(pdf, ref) ==
    IF ref.err # "none" THEN [metadata |-> <<>>, err |-> ref.err]
    ELSE GetEntries(ObjGet(pdf.objects, ref.num).dictionary, 1, <<>>)

\* get_metadata()
GetMetadata(pdf) == GetMetadataAt(pdf, InfoDict(pdf))

\* magic_line
magic_line == <<"%", "U+264A", "U+FE0E", "U+1F5CE", "U+FE0E">>

p_note == Chars(" (with gemdoc postprocessing)")

\* a variant of SetFileIdentifier that writes the two hashes the other way round
SetFileIdentifierSwapped(pdf) ==
    [pdf EXCEPT !.trailer.dictionary =
        DictSet(@, Chars("/ID"),
                B(Chars("[<") \o pdf.binary_hash \o Chars("><")
                  \o pdf.gemini_hash \o Chars(">]")))]

\* _set_file_identifier()
SetFileIdentifier(pdf) ==
    [pdf EXCEPT !.trailer.dictionary =
        DictSet(@, Chars("/ID"),
                B(Chars("[<") \o pdf.gemini_hash \o Chars("><")
                  \o pdf.binary_hash \o Chars(">]")))]

\* the /Producer string with the note put before its closing delimiter
Noted(v) ==
    IF StartsWith(v, <<"(">>) /\ EndsWith(v, <<")">>)
    THEN Take(v, Len(v) - 1) \o p_note \o Drop(v, Len(v) - 1)
    ELSE IF StartsWith(v, <<"<">>) /\ EndsWith(v, <<">">>)
    THEN Take(v, Len(v) - 1) \o MakeUtf16String(p_note) \o Drop(v, Len(v) - 1)
    ELSE v

\* p = info.pop(b'/Producer') and the note added to it, in the Info
\* dictionary made that holds /Creator
ProducerNoted(pdf, num, made) ==
    IF ~DictHas(made, Chars("/Producer"))
    THEN [WithInfo(pdf, num, made) EXCEPT !.err = "KeyError"]
    ELSE IF DictGet(made, Chars("/Producer")).t # "b"
    THEN [WithInfo(pdf, num, DictDel(made, Chars("/Producer")))
             EXCEPT !.err = "AttributeError"]
    ELSE WithInfo(pdf, num,
                  DictSet(DictDel(made, Chars("/Producer")), Chars("/Producer"),
                          B(Noted(DictGet(made, Chars("/Producer")).v))))

\* the first statements of serialize(), given the Info object ref
MarkProducerAt(pdf, ref) ==
    IF ref.err # "none" THEN [pdf EXCEPT !.err = ref.err]
    ELSE ProducerNoted(pdf, ref.num,
                       DictSet(ObjGet(pdf.objects, ref.num).dictionary,
                               Chars("/Creator"), B(Chars("(gemdoc)"))))

\* the first statements of serialize(): /Creator and the /Producer note
MarkProducer(pdf) == MarkProducerAt(pdf, InfoDict(pdf))

\* the head of a polyglot file: the lines before the embedded source object
SourceHead ==
    Encode(Chars("%PDF-1.7\n") \o magic_line \o <<"\n">>
           \o Toggle \o <<"\n">> \o Toggle \o <<"\r">>)

\* the embedded source object, given the number of bytes of the source
SourceObjectOf(pdf, gemini_length) ==
    Encode(IntStr(pdf.gemini_objnum) \o Chars(" 0 obj\r")
           \o Chars("<</Type/EmbeddedFile/Subtype/text#2fgemini/Params")
           \o Chars("<</Size ") \o IntStr(gemini_length + 1) \o Chars(">>")
           \o Chars("/Length ") \o IntStr(gemini_length + 1)
           \o Chars(">>\rstream\n")
           \o pdf.gemini \o Chars("\n\nendstream\nendobj\n"))

\* the embedded source object
SourceObject(pdf) == SourceObjectOf(pdf, Len(Encode(pdf.gemini)))

PlainHead ==
    Encode(Chars("%PDF-1.7\n%") \o <<"U+00B6", "U+1F5CE", "U+FE0E">> \o <<"\n">>)

\* a variant of Recorded that records the offset after the object's first byte
RecordedAfter(offsets, objnum, bytes) == (objnum :> Len(bytes) + 1) @@ offsets

\* xref[objnum] = len(result)
Recorded(offsets, objnum, bytes) == (objnum :> Len(bytes)) @@ offsets

RECURSIVE EmitObjects(_, _, _, _)
\* one object of the table, serialized as s, with the offsets x that hold its own
ObjectEmitted(pdf, i, bytes, x, s) ==
    IF s.err # "none" THEN [result |-> bytes, xref |-> x, err |-> s.err]
    ELSE EmitObjects(pdf, i + 1, bytes \o s.bytes, x)

\* the loop of serialize() over the object table
EmitObjects(pdf, i, bytes, offsets) ==
    IF i > Len(pdf.objects) THEN [result |-> bytes, xref |-> offsets, err |-> "none"]
    ELSE ObjectEmitted(pdf, i, bytes,
                       Recorded(offsets, pdf.objects[i].num, bytes),
                       ObjectSerialize(pdf.objects[i].obj, pdf.flateencode_streams))

RECURSIVE XrefEntries(_, _, _, _)
\* the loop of serialize() over the numbers 1..max: the xref lines
XrefEntries(offsets, i, top, last_free) ==
    IF i > top THEN <<>>
    ELSE IF i \in DOMAIN offsets
    THEN Pad10(offsets[i]) \o Chars(" 00000 n \r")
         \o XrefEntries(offsets, i + 1, top, last_free)
    ELSE Pad10(last_free) \o Chars(" 00001 f \r")
         \o XrefEntries(offsets, i + 1, top, i)

\* the xref table, for the largest object number top
XrefTable(offsets, top) ==
    Chars("xref\r") \o Chars("0 ") \o IntStr(top + 1) \o <<"\r">>
    \o Chars("0000000000 65535 f \r")
    \o XrefEntries(offsets, 1, top, 0)

\* the first bytes of the output
FirstBytes(pdf) ==
    (IF pdf.has_gemini THEN SourceHead \o SourceObject(pdf) ELSE PlainHead)
    \o Toggle \o Chars("% What follows is a pdf representation of this file\n")

\* xref, with the offset of the embedded source object
FirstOffsets(pdf) ==
    IF pdf.has_gemini THEN Recorded(<<>>, pdf.gemini_objnum, SourceHead) ELSE <<>>

\* the end of serialize(), after the loop body over the objects
Serialized(pdf, body) ==
    IF body.err # "none"
    THEN [result |-> <<>>, xref |-> body.xref, pdf |-> pdf, err |-> body.err]
    ELSE [result |-> body.result \o XrefTable(body.xref, Max(DOMAIN body.xref))
                     \o TrailerSerialize(pdf.trailer)
                     \o Chars("startxref\r") \o IntStr(Len(body.result))
                     \o Chars("\r%%EOF\n"),
          xref   |-> body.xref,
          pdf    |-> [pdf EXCEPT !.trailer.dictionary = SerializedInPlace(@)],
          err    |-> "none"]

\* serialize(), for the object pdf with its producer note and its identifier
SerializeFrom(pdf) == Serialized(pdf, EmitObjects(pdf, 1, FirstBytes(pdf), FirstOffsets(pdf)))

\* serialize(), after its first statements left the object marked
SerializeMarked(marked) ==
    IF marked.err # "none"
    THEN [result |-> <<>>, xref |-> <<>>, pdf |-> marked, err |-> marked.err]
    ELSE SerializeFrom(IF marked.has_gemini THEN SetFileIdentifier(marked)
                       ELSE marked)

\* GemdocPDF.serialize(): the bytes written, the offsets recorded in xref,
\* the object as the call leaves it, and the exception that ended the call
PdfSerialize(pdf) == SerializeMarked(MarkProducer(pdf))

\* is_gemdoc_pdf, given the lines of the document
MagicLine(ls) ==
    IF Len(ls) < 2 THEN [value |-> FALSE, err |-> "IndexError"]
    ELSE IF ~StartsWith(ls[2], magic_line)
    THEN [value |-> FALSE, err |-> "GemdocParserException"]
    ELSE [value |-> TRUE, err |-> "none"]

\* is_gemdoc_pdf, given doc.lstrip()
PdfHeader(stripped) ==
    IF ~StartsWith(stripped, Chars("%PDF-")) THEN [value |-> FALSE, err |-> "none"]
    ELSE MagicLine(SplitLines(stripped))

\* is_gemdoc_pdf(doc): TRUE, or None where the function falls off its end
is_gemdoc_pdf(d) == PdfHeader(LStrip(d))

\* what extract_gemini_part returns when it raises
NotExtracted(e) == [doc |-> <<>>, metadata |-> <<>>, err |-> e]

\* a variant of Unterminated that leaves the added newline in place
UnterminatedKept(inner) == inner

\* the source without the newline that serialize() added
Unterminated(inner) ==
    IF EndsWith(inner, <<"\n">>) THEN Take(inner, Len(inner) - 1) ELSE inner

\* extract_gemini_part, given the indices of 'stream\n' and of the end
SourceBetween(d, md, s, end) ==
    IF s = 0 \/ end = 0 THEN NotExtracted("ValueError")
    ELSE [doc |-> Unterminated(SubSeq(d, s + 7, end - 1)),
          metadata |-> md.metadata, err |-> "none"]

SourceFrom(d, md, s) ==
    SourceBetween(d, md, s, Find(d, Chars("\nendstream\nendobj\n"), s + 7))

\* extract_gemini_part, given the parsed file and its metadata
ExtractWith(d, pdf, md) ==
    IF pdf.err # "none" THEN NotExtracted(pdf.err)
    ELSE IF md.err # "none" THEN NotExtracted(md.err)
    ELSE SourceFrom(d, md, Find(d, Chars("stream\n"), 1))

ExtractFrom(d, pdf) == ExtractWith(d, pdf, GetMetadata(pdf))

\* extract_gemini_part(doc)
extract_gemini_part(d) ==
    ExtractFrom(d, GemdocPDF(FALSE, <<>>, Encode(d), Chars("source.gmi"), FALSE))

----------------------------------------------------------------------------
(* __main__: the command line's run over a local file.                      *)

\* what a file name maps to when there is no such file
Absent == <<"(no such file)">>

\* the value None of a variable that otherwise holds a sequence
None == <<>>

\* open(name).read(): text mode decodes UTF-8 and turns \r\n and \r into \n
ReadText(bytes) ==
    Replace(Replace(Decode(bytes), Chars("\r\n"), <<"\n">>), <<"\r">>, <<"\n">>)

\* the indices of the slashes of a file name
Slashes(name) == {i \in 1..Len(name) : name[i] = "/"}

\* head.rstrip('/'), unless head is all slashes
StripSlashes(head) ==
    IF \A i \in 1..Len(head) : head[i] = "/" THEN head
    ELSE Take(head, Max({i \in 1..Len(head) : head[i] # "/"}))

\* os.path.dirname(name) and os.path.basename(name)
Dirname(name) ==
    IF Slashes(name) = {} THEN <<>>
    ELSE StripSlashes(Take(name, Max(Slashes(name))))

Basename(name) ==
    IF Slashes(name) = {} THEN name ELSE Drop(name, Max(Slashes(name)))

\* os.path.join(dir, file)
PathJoin(dir, file) ==
    (IF Len(dir) = 0 \/ EndsWith(dir, <<"/">>) THEN dir ELSE dir \o <<"/">>)
    \o file

\* tempfile.mktemp(dir=dirname(name), prefix=basename(name)+'.'), for the
\* random characters the call draws
MkTemp(name, random) ==
    PathJoin(Dirname(name), Basename(name) \o <<".">> \o random)

RECURSIVE Unquote(_)
\* urllib.parse.unquote, for escapes of printable ASCII characters
Unquote(s) ==
    LET p    == Find(s, <<"%">>, 1)
        code == 16 * HexValue(s[p + 1]) + HexValue(s[p + 2])
    IN  IF p = 0 THEN s
        ELSE IF p + 2 <= Len(s) /\ s[p + 1] \in HexDigits /\ s[p + 2] \in HexDigits
                /\ code >= 32 /\ code <= 126
        THEN Take(s, p - 1) \o <<CharOf(code)>> \o Unquote(Drop(s, p + 2))
        ELSE Take(s, p) \o Unquote(Drop(s, p))

\* re.search(r'[^\.]\.[^\.]', name)
HasExtension(name) ==
    \E i \in 2..(Len(name) - 1) :
        name[i] = "." /\ name[i - 1] # "." /\ name[i + 1] # "."

\* urllib.parse.unquote where there is something to unquote
Unquoted(name) == IF Contains(name, <<"%">>) THEN Unquote(name) ELSE name

\* the file name with the extension .gmi, unless it has one
WithExtension(name) == IF HasExtension(name) THEN name ELSE name \o Chars(".gmi")

\* the attachment's file name, from the url of the metadata
GeminiFilename(md) ==
    IF "url" \in DOMAIN md /\ Len(UrlParse(md["url"]).path) > 0
    THEN WithExtension(Unquoted(LastPart(SplitOn(UrlParse(md["url"]).path, "/"))))
    ELSE Chars("source.gmi")

\* the escaping of the two keywords that would end the embedded stream
Defang(d) ==
    Replace(Replace(d, Chars("endstream"),
                    <<"e", "U+200B">> \o Chars("ndstream")),
            Chars("endobj"), <<"e", "U+200B">> \o Chars("ndobj"))

----------------------------------------------------------------------------
(* The inputs of the model.                                                 *)

\* the longest source document, in lines
MaxSourceLines == 2

\* the runs of the program over one file: the second reads what the first wrote
MaxRuns == 2

SeqsUpTo(S, n) == UNION {[1..k -> S] : k \in 0..n}

SourceLines ==
    {Chars("# Hello"), <<>>, Chars("World"), Chars("=> y L"), Chars("endobj")}

SourceDocs == {Join(ls, <<"\n">>) : ls \in SeqsUpTo(SourceLines, MaxSourceLines)}

\* the metadata the -M options give
SuppliedMetadata ==
    {<<>>,
     ("url" :> Chars("gemini://host/a/b")) @@ ("author" :> <<"U+00E9">>),
     ("url" :> Chars("gemini://host/endobj/x"))}

\* what the rendering engine writes: a document without a page, and one with
\* a page, a content stream and a free object number
EngineSmall ==
    Chars("%PDF-1.7\n1 0 obj\n<</Type/Catalog/Pages 2 0 R>>\nendobj\n")
    \o Chars("2 0 obj\n<</Type/Pages/Kids[]/Count 0>>\nendobj\n")
    \o Chars("3 0 obj\n<</Producer(WeasyPrint 57.2)/Title()>>\nendobj\n")
    \o Chars("xref\n0 4\n0000000000 65535 f \n0000000009 00000 n \n")
    \o Chars("0000000054 00000 n \n0000000099 00000 n \n")
    \o Chars("trailer\n<</Size 4/Root 1 0 R/Info 3 0 R>>\nstartxref\n152\n%%EOF\n")

EngineStreams ==
    Chars("%PDF-1.7\n1 0 obj\n<</Length 8>>\nstream\nq 1 0 Q\n\nendstream\nendobj\n")
    \o Chars("2 0 obj\n<</Type/Pages/Kids[4 0 R]/Count 1>>\nendobj\n")
    \o Chars("4 0 obj\n<</Type/Page/Parent 2 0 R/Contents 1 0 R")
    \o Chars("/MediaBox[0 0 10 10]>>\nendobj\n")
    \o Chars("5 0 obj\n<</Producer(WeasyPrint 60.1)>>\nendobj\n")
    \o Chars("6 0 obj\n<</Type/Catalog/Pages 2 0 R>>\nendobj\n")
    \o Chars("xref\n0 7\n0000000000 65535 f \n0000000009 00000 n \n")
    \o Chars("0000000059 00000 n \n0000000000 00001 f \n0000000110 00000 n \n")
    \o Chars("0000000196 00000 n \n0000000241 00000 n \n")
    \o Chars("trailer\n<</Size 7/Root 6 0 R/Info 5 0 R>>\nstartxref\n287\n%%EOF\n")

\* a PDF whose objects do not stand in the order of their numbers
EngineUnordered ==
    Chars("%PDF-1.7\n2 0 obj\n<</Type/Pages/Kids[]/Count 0>>\nendobj\n")
    \o Chars("3 0 obj\n<</Producer(WeasyPrint 57.2)>>\nendobj\n")
    \o Chars("1 0 obj\n<</Type/Catalog/Pages 2 0 R>>\nendobj\n")
    \o Chars("xref\n0 4\n0000000000 65535 f \n0000000101 00000 n \n")
    \o Chars("0000000009 00000 n \n0000000055 00000 n \n")
    \o Chars("trailer\n<</Size 4/Root 1 0 R/Info 3 0 R>>\nstartxref\n146\n%%EOF\n")

\* a PDF with the free object numbers 2, 4 and 5, and a /Producer that is a
\* hex string
EngineSparse ==
    Chars("%PDF-1.7\n1 0 obj\n<</Type/Catalog/Pages 3 0 R>>\nendobj\n")
    \o Chars("3 0 obj\n<</Type/Pages/Kids[]/Count 0>>\nendobj\n")
    \o Chars("6 0 obj\n<</Producer<feff00570050>>>\nendobj\n")
    \o Chars("xref\n0 7\n0000000000 65535 f \n0000000009 00000 n \n")
    \o Chars("0000000004 00001 f \n0000000054 00000 n \n0000000005 00001 f \n")
    \o Chars("0000000000 00001 f \n0000000100 00000 n \n")
    \o Chars("trailer\n<</Size 7/Root 1 0 R/Info 6 0 R>>\nstartxref\n143\n%%EOF\n")

\* a PDF with an update section that defines object 2 again
EngineUpdated ==
    Chars("%PDF-1.7\n2 0 obj\n<</Type/Pages/Kids[]/Count 0>>\nendobj\n")
    \o Chars("1 0 obj\n<</Type/Catalog/Pages 2 0 R>>\nendobj\n")
    \o Chars("3 0 obj\n<</Producer(P)>>\nendobj\n")
    \o Chars("xref\n0 4\n0000000000 65535 f \n0000000055 00000 n \n")
    \o Chars("0000000009 00000 n \n0000000100 00000 n \n")
    \o Chars("trailer\n<</Size 4/Root 1 0 R/Info 3 0 R>>\nstartxref\n131\n%%EOF\n")
    \o Chars("2 0 obj\n<</Type/Pages/Kids[]/Count 0/Lang(en)>>\nendobj\n")
    \o Chars("xref\n2 1\n0000000236 00000 n \n")
    \o Chars("trailer\n<</Size 4/Root 1 0 R/Info 3 0 R/Prev 131>>\nstartxref\n291\n%%EOF\n")

\* the engine's output and the flateencode_streams option its version selects
Engines ==
    {[pdf |-> EngineSmall, flateencode_streams |-> FALSE],
     [pdf |-> EngineStreams, flateencode_streams |-> TRUE]}

InputFile == Chars("notes/in.gmi")

OutputFile == Chars("out.pdf")

\* the characters tempfile.mktemp draws
RandomNames == {Chars("k3x9q_7a")}

Files == {InputFile, OutputFile} \cup {MkTemp(InputFile, r) : r \in RandomNames}

\* the metadata the -M options of a later run over the written file give
RerunMetadata ==
    {<<>>, ("author" :> Chars("Jo")) @@ ("subject" :> Chars("s"))}

NoRun == [source |-> <<>>, gemini |-> <<>>, metadata |-> <<>>, supplied |-> <<>>]

NoPdf == [err |-> "none"]

NoParse == [err |-> "none"]

NoError == [at |-> "none", exception |-> "none"]

----------------------------------------------------------------------------
(* The run of __main__, one action for each of its steps.                   *)

Idle ==
    /\ url = <<>> /\ max_redirects = 0 /\ requests = 0 /\ redirects = 0
    /\ pending = 0 /\ response = NoError

Init ==
    /\ pc = "start" /\ run = 1
    /\ in_place \in BOOLEAN
    /\ args0 = InputFile
    /\ output = IF in_place THEN None ELSE OutputFile
    /\ \E d \in SourceDocs :
           fs = [f \in Files |-> IF f = InputFile THEN Encode(d) ELSE Absent]
    /\ orig = fs[InputFile]
    /\ metadata \in SuppliedMetadata
    /\ doc = <<>> /\ gemini_filename = <<>> /\ parsed = NoParse
    /\ engine_pdf = <<>> /\ flateencode_streams = FALSE /\ polyglot = NoPdf
    /\ result = <<>> /\ xref = <<>> /\ error = NoError /\ history = NoRun
    /\ Idle

\* an exception, or err(): the run ends at the step named
Fail(at, exception) ==
    /\ pc' = "failed"
    /\ error' = [at |-> at, exception |-> exception]

Goes(to) == pc' = to /\ UNCHANGED error

\* lines 910-912: the input file is read as text
ReadInput ==
    /\ pc = "start"
    /\ IF ~StartsWith(args0, Chars("gemini://")) /\ fs[args0] # Absent
       THEN doc' = ReadText(fs[args0]) /\ Goes("read")
       ELSE UNCHANGED doc /\ Fail("read", "exit")
    /\ UNCHANGED <<fileVars, pipelineVars, fetchVars, metadata, parsed>>

\* lines 923-944: the checks of -i and -o, and the temporary file's name
CheckFlags ==
    /\ pc = "read"
    /\ IF output = None /\ ~in_place
       THEN UNCHANGED output /\ Fail("flags", "exit")
       ELSE IF in_place
       THEN (IF output # None \/ fs[args0] = Absent
             THEN UNCHANGED output /\ Fail("flags", "exit")
             ELSE \E r \in RandomNames :
                      /\ fs[MkTemp(args0, r)] = Absent
                      /\ output' = MkTemp(args0, r)
                      /\ Goes("checked"))
       ELSE UNCHANGED output /\ Goes("checked")
    /\ UNCHANGED <<in_place, args0, fs, orig, run, history, pipelineVars,
                   fetchVars, doc, metadata, parsed>>

\* lines 956-960: a polyglot input gives its source and its metadata
ExtractPolyglot ==
    /\ pc = "checked"
    /\ \E signed \in {is_gemdoc_pdf(doc)} :
           IF signed.err # "none"
           THEN UNCHANGED <<doc, metadata>> /\ Fail("signature", signed.err)
           ELSE IF ~signed.value
           THEN UNCHANGED <<doc, metadata>> /\ Goes("extracted")
           ELSE \E e \in {extract_gemini_part(doc)} :
                    IF e.err # "none"
                    THEN UNCHANGED <<doc, metadata>> /\ Fail("extract", e.err)
                    ELSE /\ doc' = e.doc
                         /\ metadata' = metadata @@ e.metadata
                         /\ Goes("extracted")
    /\ UNCHANGED <<fileVars, pipelineVars, fetchVars, parsed>>

\* lines 995-1003
NameAttachment ==
    /\ pc = "extracted"
    /\ gemini_filename' = GeminiFilename(metadata)
    /\ Goes("named")
    /\ UNCHANGED <<fileVars, fetchVars, doc, metadata, parsed, engine_pdf,
                   flateencode_streams, polyglot, result, xref>>

\* lines 1005-1014
DefangDoc ==
    /\ pc = "named"
    /\ doc' = Defang(doc)
    /\ Goes("defanged")
    /\ UNCHANGED <<fileVars, pipelineVars, fetchVars, metadata, parsed>>

\* line 1016
Parse ==
    /\ pc = "defanged"
    /\ parsed' = parse_gemini(doc, metadata)
    /\ metadata' = parsed'.metadata
    /\ IF parsed'.err # "none" THEN Fail("parse", parsed'.err) ELSE Goes("parsed")
    /\ UNCHANGED <<fileVars, pipelineVars, fetchVars, doc>>

\* lines 1017-1044: the engine renders the html
Render ==
    /\ pc = "parsed"
    /\ \E e \in Engines :
           /\ engine_pdf' = e.pdf
           /\ flateencode_streams' = e.flateencode_streams
    /\ Goes("rendered")
    /\ UNCHANGED <<fileVars, fetchVars, doc, metadata, parsed, gemini_filename,
                   polyglot, result, xref>>

\* lines 1045-1047
Build ==
    /\ pc = "rendered"
    /\ polyglot' = GemdocPDF(TRUE, parsed.gemini, engine_pdf, gemini_filename,
                             flateencode_streams)
    /\ IF polyglot'.err # "none" THEN Fail("build", polyglot'.err)
       ELSE Goes("built")
    /\ UNCHANGED <<fileVars, fetchVars, doc, metadata, parsed, gemini_filename,
                   engine_pdf, flateencode_streams, result, xref>>

\* line 1048
InstallMetadata ==
    /\ pc = "built"
    /\ polyglot' = SetMetadata(polyglot, metadata)
    /\ IF polyglot'.err # "none" THEN Fail("set_metadata", polyglot'.err)
       ELSE Goes("installed")
    /\ UNCHANGED <<fileVars, fetchVars, doc, metadata, parsed, gemini_filename,
                   engine_pdf, flateencode_streams, result, xref>>

\* line 1049: the argument of write_output
Serialize ==
    /\ pc = "installed"
    /\ \E s \in {PdfSerialize(polyglot)} :
           /\ polyglot' = s.pdf
           /\ result' = s.result
           /\ xref' = s.xref
           /\ IF s.err # "none" THEN Fail("serialize", s.err)
              ELSE Goes("serialized")
    /\ UNCHANGED <<fileVars, fetchVars, doc, metadata, parsed, gemini_filename,
                   engine_pdf, flateencode_streams>>

\* a variant of WriteOutput that, with -i, writes to the input file itself
WriteOutputOverInput ==
    /\ pc = "serialized"
    /\ \/ /\ fs' = [fs EXCEPT ![IF in_place THEN args0 ELSE output] = result]
          /\ Goes("written")
       \/ \E n \in {0, Len(result) \div 2} :
              /\ fs' = [fs EXCEPT ![IF in_place THEN args0 ELSE output] =
                                      Take(result, n)]
              /\ Fail("write", "OSError")
    /\ UNCHANGED <<in_place, args0, output, orig, run, history, pipelineVars,
                   fetchVars, doc, metadata, parsed>>

\* lines 883-899: the file is opened for writing and written, or the write
\* stops part of the way
WriteOutput ==
    /\ pc = "serialized"
    /\ \/ /\ fs' = [fs EXCEPT ![output] = result]
          /\ Goes("written")
       \/ \E n \in {0, Len(result) \div 2} :
              /\ fs' = [fs EXCEPT ![output] = Take(result, n)]
              /\ Fail("write", "OSError")
    /\ UNCHANGED <<in_place, args0, output, orig, run, history, pipelineVars,
                   fetchVars, doc, metadata, parsed>>

\* line 1050
Rename ==
    /\ pc = "written"
    /\ fs' = IF in_place
             THEN [fs EXCEPT ![args0] = fs[output], ![output] = Absent]
             ELSE fs
    /\ Goes("done")
    /\ UNCHANGED <<in_place, args0, output, orig, run, history, pipelineVars,
                   fetchVars, doc, metadata, parsed>>

Running ==
    {"start", "read", "checked", "extracted", "named", "defanged", "parsed",
     "rendered", "built", "installed", "serialized", "written"}

\* the process is killed between two steps
Crash ==
    /\ pc \in Running
    /\ Fail(pc, "killed")
    /\ UNCHANGED <<fileVars, pipelineVars, fetchVars, doc, metadata, parsed>>

\* the program is run again on the file it wrote, with or without -M options
Restart ==
    /\ pc = "done" /\ run < MaxRuns
    /\ run' = run + 1
    /\ \E supplied \in RerunMetadata :
           /\ metadata' = supplied
           /\ history' = [source |-> ReadText(orig), gemini |-> parsed.gemini,
                          metadata |-> metadata, supplied |-> supplied]
    /\ args0' = IF in_place THEN args0 ELSE output
    /\ output' = IF in_place THEN None ELSE output
    /\ orig' = fs[args0']
    /\ doc' = <<>> /\ gemini_filename' = <<>> /\ parsed' = NoParse
    /\ engine_pdf' = <<>> /\ flateencode_streams' = FALSE /\ polyglot' = NoPdf
    /\ result' = <<>> /\ xref' = <<>>
    /\ Goes("start")
    /\ UNCHANGED <<in_place, fs, fetchVars>>

Next ==
    \/ ReadInput \/ CheckFlags \/ ExtractPolyglot \/ NameAttachment
    \/ DefangDoc \/ Parse \/ Render \/ Build \/ InstallMetadata \/ Serialize
    \/ WriteOutput \/ Rename \/ Crash \/ Restart

Spec == Init /\ [][Next]_vars

----------------------------------------------------------------------------
(* retrieve_url: the fetch of a gemini url, one action for each call of the *)
(* function and for each kind of response.                                  *)

\* the default of the parameter max_redirects
DefaultMaxRedirects == 5

\* the longest chain of redirects the server of the model answers
MaxChain == 6

TooManyRedirects == "Maximum number of redirects exceeded"

\* lines 41-45: the url as it is requested
Requested(p) ==
    [scheme |-> p.scheme, host |-> p.netloc, path |-> p.path,
     url |-> p.scheme \o Chars("://") \o p.netloc
             \o (IF Len(p.path) = 0 THEN <<"/">> ELSE p.path)]

\* lines 41-42: the url without line breaks, parsed
RequestUrl(u) ==
    Requested(UrlParse(Replace(Replace(u, Chars("\r\n"), Chars("%0A")),
                               <<"\n">>, Chars("%0A"))))

\* line 49: host.rsplit(':', maxsplit=1)[0]
ConnectHost(host) ==
    LET colons == {i \in 1..Len(host) : host[i] = ":"}
    IN  IF colons = {} THEN host ELSE Take(host, Max(colons) - 1)

\* lines 72-77: the destination of a redirect
Redirect(dest, host, path) ==
    IF Len(UrlParse(dest).scheme) > 0 THEN dest
    ELSE IF StartsWith(dest, Chars("//")) THEN Chars("gemini:") \o dest
    ELSE IF StartsWith(dest, <<"/">>)
    THEN Chars("gemini://") \o ConnectHost(host) \o dest
    ELSE Chars("gemini:")
         \o UrlJoin(Chars("//") \o ConnectHost(host) \o path, dest)

\* line 72: dest = header[3:]
Destination(header, host, path) == Redirect(Drop(header, 3), host, path)

\* lines 69-97: what the status line selects
Kind(header) ==
    IF ~(Len(header) >= 2 /\ header[1] \in Digits /\ header[2] \in Digits)
    THEN "invalid"
    ELSE IF header[1] = "3" THEN "redirect"
    ELSE IF header[1] = "2" THEN "success"
    ELSE "error"

\* lines 81-82: the mime type of a success header
LowerCase(s) == [i \in 1..Len(s) |-> Lower(s[i])]

MimeType(header) == LowerCase(Strip(SplitOn(Drop(header, 3), ";")[1]))

\* the urls the fetch is started with
StartUrls == {Chars("gemini://host/a/b"), Chars("gemini://host:1965")}

\* the status lines the server of the model sends
RedirectHeaders ==
    {Chars("31 gemini://other/p"), Chars("30 //other/q/"), Chars("31 /r"),
     Chars("30 s")}

FinalHeaders ==
    {Chars("20 text/gemini"), Chars("20 Text/Gemini; charset=utf-8"),
     Chars("51 Not found"), Chars("hello")}

Body == Chars("# Hello\n")

PipelineIdle ==
    /\ in_place = FALSE /\ args0 = <<>> /\ output = None
    /\ fs = <<>> /\ orig = <<>> /\ run = 1 /\ history = NoRun
    /\ gemini_filename = <<>> /\ engine_pdf = <<>>
    /\ flateencode_streams = FALSE /\ polyglot = NoPdf
    /\ result = <<>> /\ xref = <<>>

InitFetch ==
    /\ pc = "call"
    /\ url \in StartUrls
    /\ max_redirects = DefaultMaxRedirects
    /\ requests = 0 /\ redirects = 0
    /\ pending \in 0..MaxChain
    /\ response = NoError
    /\ error = NoError
    /\ doc = <<>> /\ metadata = <<>> /\ parsed = NoParse
    /\ PipelineIdle

mainVars == <<fileVars, pipelineVars, doc, metadata, parsed>>

\* lines 39-55: the call of the function, up to the request it sends
Call ==
    /\ pc = "call"
    /\ IF max_redirects <= 0
       THEN UNCHANGED requests /\ Fail("retrieve_url", TooManyRedirects)
       ELSE IF RequestUrl(url).scheme # Chars("gemini")
       THEN UNCHANGED requests /\ Fail("retrieve_url", "Unsupported url scheme")
       ELSE requests' = requests + 1 /\ Goes("sent")
    /\ UNCHANGED <<mainVars, url, max_redirects, redirects, pending, response>>

\* lines 71-79: a 3X response is followed by a call with one redirect less
Redirected ==
    /\ pc = "sent" /\ pending > 0
    /\ \E header \in RedirectHeaders :
           /\ Kind(header) = "redirect"
           /\ url' = Destination(header, RequestUrl(url).host,
                                 RequestUrl(url).path)
    /\ max_redirects' = max_redirects - 1
    /\ redirects' = redirects + 1
    /\ pending' = pending - 1
    /\ Goes("call")
    /\ UNCHANGED <<mainVars, requests, response>>

\* lines 80-95: a 2X response ends the fetch with the body
Answered ==
    /\ pc = "sent" /\ pending = 0
    /\ \E header \in FinalHeaders :
           /\ Kind(header) = "success"
           /\ response' = [url |-> RequestUrl(url).url, mime_type |-> MimeType(header),
                           doc |-> Body]
    /\ Goes("returned")
    /\ UNCHANGED <<mainVars, url, max_redirects, requests, redirects, pending>>

\* lines 69-70 and 96-97: any other response ends the fetch with an exception
Refused ==
    /\ pc = "sent" /\ pending = 0
    /\ \E header \in FinalHeaders :
           \/ Kind(header) = "invalid"
              /\ Fail("retrieve_url", "Invalid response from server")
           \/ Kind(header) = "error"
              /\ Fail("retrieve_url", "Server replied")
    /\ UNCHANGED <<mainVars, fetchVars>>

NextFetch == Call \/ Redirected \/ Answered \/ Refused

SpecFetch == InitFetch /\ [][NextFetch]_vars

----------------------------------------------------------------------------
(* parse_gemini on its own: the translator is applied to a document and a   *)
(* metadata mapping.                                                        *)

\* the longest document handed to the translator, in lines
MaxLines == 3

ParseLines ==
    {Chars("# A"), Chars("# A."), Chars("## B"), Chars("### C"), <<>>,
     <<"#", " ", "U+00E9">>, Chars("#"), Toggle,
     Chars("=> //example.org/ Example"), Chars("=> /x Label"),
     Chars("%!GEMDOC author=Jo"), Chars("%!GEMDOC colour=red"), Chars("<b>"),
     Toggle \o Chars("x")}

ParseDocs == {Join(ls, <<"\n">>) : ls \in SeqsUpTo(ParseLines, MaxLines)}

ParseMetadata ==
    {<<>>, ("url" :> Chars("gemini://host/a/b")), ("title" :> Chars("S"))}

InitParse ==
    /\ pc = "defanged"
    /\ doc \in ParseDocs
    /\ metadata \in ParseMetadata
    /\ parsed = NoParse
    /\ error = NoError
    /\ PipelineIdle
    /\ Idle

NextParse == Parse

SpecParse == InitParse /\ [][NextParse]_vars

----------------------------------------------------------------------------
(* parse_gemini over urls whose last path component looks like a date.      *)

DateSeps == {<<>>, <<"-">>, <<"_">>, <<".">>}

DateTails == {Chars(".gmi"), <<>>, Chars("5"), Chars("-x")}

DateNames ==
    {Chars("2023") \o s1 \o Chars("01") \o s2 \o Chars("15") \o t :
        s1 \in DateSeps, s2 \in DateSeps, t \in DateTails}

DateUrls ==
    {Chars("gemini://host") \o dir \o name :
        dir \in {Chars("/"), Chars("/~jo/")}, name \in DateNames}

DateMetadata ==
    {("url" :> u) : u \in DateUrls}
    \cup {("url" :> u) @@ ("date" :> Chars("1999-12-31")) : u \in DateUrls}

InitDate ==
    /\ pc = "defanged"
    /\ doc = Chars("x")
    /\ metadata \in DateMetadata
    /\ parsed = NoParse
    /\ error = NoError
    /\ PipelineIdle
    /\ Idle

NextDate == Parse

SpecDate == InitDate /\ [][NextDate]_vars

----------------------------------------------------------------------------
(* GemdocPDF over PDF files of several shapes, with and without a source.   *)

PdfInputs ==
    {EngineSmall, EngineStreams, EngineUnordered, EngineSparse, EngineUpdated}

PdfMetadata == {<<>>, ("author" :> Chars("Jo")), ("url" :> Chars("gemini://host/a/b"))}

\* GemdocPDF(None, binary): the object of a PDF that has no source attached
BuildPlain ==
    /\ pc = "rendered"
    /\ polyglot' = GemdocPDF(FALSE, <<>>, engine_pdf, Chars("source.gmi"),
                             flateencode_streams)
    /\ IF polyglot'.err # "none" THEN Fail("build", polyglot'.err)
       ELSE Goes("built")
    /\ UNCHANGED <<fileVars, fetchVars, doc, metadata, parsed, gemini_filename,
                   engine_pdf, flateencode_streams, result, xref>>

\* sources without a preformatted block, with a closed one and with one that
\* is left open
PdfDocs ==
    {Chars("# A\nx"),
     Toggle \o Chars("\ncode\n") \o Toggle \o Chars("\nx"),
     Chars("# A\n") \o Toggle \o Chars("\ncode")}

InitPdf ==
    /\ pc = "rendered"
    /\ doc \in PdfDocs
    /\ \E md \in PdfMetadata :
           /\ parsed = parse_gemini(doc, md)
           /\ metadata = parsed.metadata
    /\ gemini_filename = Chars("in.gmi")
    /\ engine_pdf \in PdfInputs
    /\ flateencode_streams \in BOOLEAN
    /\ polyglot = NoPdf /\ result = <<>> /\ xref = <<>>
    /\ in_place = FALSE /\ args0 = <<>> /\ output = None
    /\ fs = <<>> /\ orig = <<>> /\ run = 1 /\ history = NoRun
    /\ error = NoError
    /\ Idle

\* serialize() called once more on the object the first call left, with no
\* other operation in between
SerializeAgain ==
    /\ pc = "serialized"
    /\ \E s \in {PdfSerialize(polyglot)} :
           /\ polyglot' = s.pdf
           /\ result' = s.result
           /\ xref' = s.xref
           /\ IF s.err # "none" THEN Fail("serialize", s.err)
              ELSE Goes("reserialized")
    /\ UNCHANGED <<fileVars, fetchVars, doc, metadata, parsed, gemini_filename,
                   engine_pdf, flateencode_streams>>

NextPdf == Build \/ BuildPlain \/ InstallMetadata \/ Serialize \/ SerializeAgain

SpecPdf == InitPdf /\ [][NextPdf]_vars

----------------------------------------------------------------------------
(* _consume_dictionary over dictionaries that hold a literal string.        *)

\* the longest text between the outer parentheses of a literal string
MaxStringLen == 5

RECURSIVE Depth(_, _)
\* the nesting depth after the first n characters of s, or -1 where a
\* closing parenthesis had nothing to close
Depth(s, n) ==
    IF n = 0 THEN 0
    ELSE IF Depth(s, n - 1) < 0 THEN -1
    ELSE IF s[n] = "(" THEN Depth(s, n - 1) + 1
    ELSE IF s[n] = ")" THEN Depth(s, n - 1) - 1
    ELSE Depth(s, n - 1)

\* the literal strings whose parentheses are balanced
LiteralStrings ==
    {<<"(">> \o s \o <<")">> :
        s \in {t \in SeqsUpTo({"(", ")", "a"}, MaxStringLen) : Depth(t, Len(t)) = 0}}

\* a dictionary whose first value is the string, and one whose first value is
\* an array that starts with it
StringDictionaries ==
    {Chars("<</K") \o s \o Chars("/L 1>>") : s \in LiteralStrings}
    \cup {Chars("<</K[") \o s \o Chars(" (z)]>>") : s \in LiteralStrings}

\* _consume_dictionary(binary), for the bytes of the dictionary
ConsumeInput ==
    /\ pc = "binary"
    /\ polyglot' = ConsumeDictionary(engine_pdf)
    /\ IF polyglot'.err # "none" THEN Fail("consume", polyglot'.err)
       ELSE Goes("consumed")
    /\ UNCHANGED <<fileVars, fetchVars, doc, metadata, parsed, gemini_filename,
                   engine_pdf, flateencode_streams, result, xref>>

InitStrings ==
    /\ pc = "binary"
    /\ engine_pdf \in StringDictionaries
    /\ doc = <<>> /\ metadata = <<>> /\ parsed = NoParse
    /\ gemini_filename = <<>> /\ flateencode_streams = FALSE
    /\ polyglot = NoPdf /\ result = <<>> /\ xref = <<>>
    /\ in_place = FALSE /\ args0 = <<>> /\ output = None
    /\ fs = <<>> /\ orig = <<>> /\ run = 1 /\ history = NoRun
    /\ error = NoError
    /\ Idle

NextStrings == ConsumeInput

SpecStrings == InitStrings /\ [][NextStrings]_vars

----------------------------------------------------------------------------
(* is_gemdoc_pdf and extract_gemini_part over texts that begin like a PDF.  *)

DetectLines ==
    {Chars("%PDF-1.7"), Chars(" %PDF-1.4"), magic_line, magic_line \o Chars(" x"),
     Chars("# A"), <<>>}

\* the longest text handed to is_gemdoc_pdf, in lines
MaxDetectLines == 3

\* a polyglot as the program writes it
PolyglotOf(gemini, binary) ==
    Decode(PdfSerialize(GemdocPDF(TRUE, gemini, binary, Chars("in.gmi"), FALSE)).result)

DetectDocs ==
    {Join(ls, <<"\n">>) : ls \in SeqsUpTo(DetectLines, MaxDetectLines)}
    \cup {PolyglotOf(Chars("# A"), EngineSmall)}

InitDetect ==
    /\ pc = "checked"
    /\ doc \in DetectDocs
    /\ metadata = <<>>
    /\ parsed = NoParse
    /\ error = NoError
    /\ PipelineIdle
    /\ Idle

NextDetect == ExtractPolyglot

SpecDetect == InitDetect /\ [][NextDetect]_vars

----------------------------------------------------------------------------------------------------------------------------------------
(* The output read back as a PDF reader reads it: from startxref to the    *)
(* xref table, its entries, and the trailer.                                *)

\* the decimal number written at index p of s
NumberAt(s, p) == ParseInt(SubSeq(s, p, FindClass(s, Digits, FALSE, p) - 1))

RECURSIVE DigitsStart(_, _)
\* the index where the run of digits that ends at index q of s starts
DigitsStart(s, q) ==
    IF q >= 1 /\ s[q] \in Digits THEN DigitsStart(s, q - 1) ELSE q + 1

\* the decimal number written before index p of s
NumberBefore(s, p) == ParseInt(SubSeq(s, DigitsStart(s, p - 1), p - 1))

\* the xref entries of the object numbers below count, 20 bytes each from first
EntriesRead(first, count) ==
    [i \in 0..(count - 1) |->
        [in_use |-> result[first + 20 * i + 17] = "n",
         offset |-> ParseInt(SubSeq(result, first + 20 * i, first + 20 * i + 9))]]

\* the table at offset start with the count M of its subsection header `0 M`
TableRead(start, count, trailer_at) ==
    [start   |-> start,
     count   |-> count,
     entry   |-> EntriesRead(start + 9 + Len(IntStr(count)), count),
     trailer |-> trailer_at,
     size    |-> NumberAt(result, Find(result, Chars("/Size "), trailer_at) + 6)]

TableAt(start) ==
    TableRead(start, NumberAt(result, start + 8),
              Find(result, Chars("trailer\r"), start + 1))

\* the xref table and the trailer the output names after startxref
XrefRead == TableAt(NumberAt(result, Find(result, Chars("startxref\r"), 1) + 10))

InUseEntries(t) == {i \in 0..(t.count - 1) : t.entry[i].in_use}

\* the definition `i 0 obj` starts at the offset o of the output
DefinedAt(i, o) ==
    /\ StartsWithAt(result, IntStr(i) \o Chars(" 0 obj\r"), o + 1)
    /\ result[o] \notin Digits

\* the object numbers whose definitions the output holds
EmittedBy(keyword) ==
    {NumberBefore(result, p) :
        p \in {q \in 2..Len(result) : StartsWithAt(result, keyword, q)}}

Emitted == EmittedBy(Chars(" 0 obj\r"))

\* the object numbers of the assembler: the embedded source and the table
Assembled ==
    {polyglot.gemini_objnum}
    \cup {polyglot.objects[k].num : k \in 1..Len(polyglot.objects)}

\* the body of the embedded source stream of the output
StreamBodyFrom(s) ==
    SubSeq(result, s + 7, Find(result, Chars("\nendstream\nendobj\n"), s + 7) - 1)

StreamBody == StreamBodyFrom(Find(result, Chars("stream\n"), 1))

\* serialize() has just returned the output
HasOutput == pc = "serialized"

FirstOutput == pc = "serialized" /\ run = 1

\* the second run has read the file the first run wrote
Reread == run = 2 /\ pc = "read"

\* the second run is past extract_gemini_part, or was ended by it
Extraction == run = 2 /\ (pc = "extracted" \/ (pc = "failed" /\ error.at = "extract"))

----------------
(* C1: polyglot identity for the source.                                    *)

\* the source as extract_gemini_part cuts it out of the text d
Embedded(d) == SourceFrom(d, [metadata |-> <<>>], Find(d, Chars("stream\n"), 1)).doc

----------------------------------------------------------------------------
(* C2: polyglot identity for the metadata.                                  *)

Contained(small, large) ==
    \A k \in DOMAIN small : k \in DOMAIN large /\ large[k] = small[k]

\* C2, as the claim states it: the metadata read back from the file, by a run
\* without -M options, holds every key and value that set_metadata installed.
C2_MetadataReadBack ==
    (Extraction /\ DOMAIN history.supplied = {})
        => pc = "extracted" /\ Contained(history.metadata, metadata)

----------------------------------------------------------------------------
(* C3: the xref table of the output.                                        *)

XrefOffsets(t) ==
    /\ StartsWithAt(result, Chars("xref\r0 "), t.start + 1)
    /\ \A i \in InUseEntries(t) : DefinedAt(i, t.entry[i].offset)
    /\ InUseEntries(t) = Assembled
    /\ \A i \in InUseEntries(t) : xref[i] = t.entry[i].offset

\* C3: every in-use xref entry of the output holds the offset of the first
\* byte of the definition `i 0 obj` of its own object, the in-use entries are
\* the embedded source object and the objects of the table, and they are the
\* offsets serialize() recorded.
C3_XrefOffsets == HasOutput => XrefOffsets(XrefRead)

StreamsAndFree(t) ==
    /\ Cardinality(InUseEntries(t)) >= 6
    /\ \E i \in 1..(t.count - 1) : ~t.entry[i].in_use
    /\ t.entry[polyglot.gemini_objnum].in_use

\* an output with a stream object, a free entry and the source object
C3_Witness == pc = "serialized" /\ StreamsAndFree(XrefRead)

----------------------------------------------------------------------------
(* C4: the trailer's /Size.                                                 *)

\* the largest object number of the rendering engine's file
EngineTop == IF engine_pdf = EngineSmall THEN 3 ELSE 6

\* the definition of object i in the output starts with the bytes given
DefinitionStarts(t, i, bytes) ==
    /\ i < t.count
    /\ StartsWithAt(result, IntStr(i) \o Chars(" 0 obj\r") \o bytes,
                    t.entry[i].offset + 1)

SizeOf(t, top) ==
    /\ t.size = top + 1
    /\ t.size = t.count
    /\ polyglot.gemini_objnum = EngineTop + 1
    /\ DefinitionStarts(t, EngineTop + 1, Chars("<</Type/EmbeddedFile"))
    /\ DefinitionStarts(t, EngineTop + 2, Chars("<</Type/Filespec"))
    /\ t.size = EngineTop + 3

\* C4: the trailer's /Size is one more than the largest object number the
\* output defines and is the count of the xref subsection header; above the
\* engine's largest number m, the embedded file is object m+1, the Filespec
\* object m+2 and /Size m+3.
C4_Size == HasOutput => SizeOf(XrefRead, Max(Emitted))

\* an output above an engine file that left an object number free
C4_Witness ==
    /\ pc = "serialized"
    /\ engine_pdf = EngineStreams
    /\ XrefRead.size = 9
    /\ Max(Emitted) = 8

----------------------------------------------------------------------------
(* C5: the trailer's /ID.                                                   *)

Identifier(h1, h2) == Chars("/ID[<") \o h1 \o Chars("><") \o h2 \o Chars(">]")

TrailerHolds(bytes) == Find(result, bytes, Find(result, Chars("trailer\r"), 1)) # 0

\* C5, as the claim states it: the first hash of /ID is the SHA-256 of the
\* UTF-8 bytes of the source S the run was given.
C5_IdentifierOfInput ==
    FirstOutput => TrailerHolds(Identifier(Sha256Hex(orig), Sha256Hex(engine_pdf)))

\* C5, amended: /ID is `[<H1><H2>]` with H1 the SHA-256 of the UTF-8 bytes of
\* the source parse_gemini exported and H2 the SHA-256 of the engine's bytes.
C5_IdentifierOfExported ==
    HasOutput =>
        TrailerHolds(Identifier(Sha256Hex(Encode(parsed.gemini)),
                                Sha256Hex(engine_pdf)))

\* an output whose exported source is not the text the run was given
C5_Witness ==
    /\ pc = "serialized" /\ run = 1
    /\ Encode(parsed.gemini) # orig
    /\ TrailerHolds(Identifier(Sha256Hex(Encode(parsed.gemini)),
                               Sha256Hex(engine_pdf)))

----------------------------------------------------------------------------
(* C6: the two keywords in the embedded source.                             *)

\* C6, as the claim states it: the body of the embedded source stream holds
\* neither `endstream` nor `endobj`.
C6_NoKeywordInStream ==
    HasOutput =>
        /\ ~Contains(StreamBody, Chars("endstream"))
        /\ ~Contains(StreamBody, Chars("endobj"))

----------------------------------------------------------------------------------------------------------------------------------------
(* C7: the title parse_gemini sets.                                         *)

\* the line k of ls is outside a preformatted block
Outside(ls, k) ==
    Cardinality({j \in 1..(k - 1) : StartsWith(ls[j], Toggle)}) % 2 = 0

\* the lines of ls that are `#` headings outside a preformatted block
TitleLines(ls) ==
    {k \in 1..Len(ls) : /\ StartsWith(ls[k], <<"#">>)
                        /\ ~StartsWith(ls[k], <<"#", "#">>)
                        /\ Outside(ls, k)}

\* the non-blank lines of ls after line k
NonBlankAfter(ls, k) == {j \in (k + 1)..Len(ls) : Strip(ls[j]) # <<>>}

\* the next non-blank line after line k is a `##` heading and not a `###` one
SubtitleFollows(ls, after) ==
    /\ after # {}
    /\ StartsWith(ls[Min(after)], <<"#", "#">>)
    /\ ~StartsWith(ls[Min(after)], <<"#", "#", "#">>)

\* the title the claim gives for the heading text T and the subtitle text U
Joined(T, U) ==
    IF Len(T) > 0 /\ T[Len(T)] \in {".", ",", ";", ":", "?", "!"}
    THEN T \o <<" ">> \o U
    ELSE T \o Chars(": ") \o U

ClaimedTitleAt(ls, k, after) ==
    IF SubtitleFollows(ls, after)
    THEN Joined(Strip(Drop(ls[k], 1)), Strip(Drop(ls[Min(after)], 2)))
    ELSE Strip(Drop(ls[k], 1))

ClaimedTitle(ls, k) == ClaimedTitleAt(ls, k, NonBlankAfter(ls, k))

TitleIs(ls, titles) ==
    titles # {} =>
        /\ pc = "parsed"
        /\ "title" \in DOMAIN metadata
        /\ metadata["title"] = ClaimedTitle(ls, Min(titles))

TitleOf(ls) == TitleIs(ls, TitleLines(ls))

\* C7, as the claim states it: the title is `T U` or `T: U` for the first `#`
\* heading T outside a preformatted block and the `##` heading U on the next
\* non-blank line, and T where no such subtitle follows.
C7_TitleSynthesis == pc \in {"parsed", "failed"} => TitleOf(SplitLines(doc))

----------------------------------------------------------------------------
(* C8: the link lines of the exported source.                               *)

\* C8, as the claim states it: a rewritten link line of the exported source
\* is `=> `, the absolute link, one space and the label.
C8_LinkLine ==
    pc = "parsed" =>
        /\ (doc = Chars("=> //example.org/ Example") /\ "url" \notin DOMAIN metadata)
               => parsed.gemini = Chars("=> gemini://example.org/ Example")
        /\ (doc = Chars("=> /x Label") /\ "url" \in DOMAIN metadata)
               => parsed.gemini = Chars("=> gemini://host/x Label")

----------------------------------------------------------------------------
(* C9: the redirects retrieve_url follows.                                  *)

\* C9, as the claim states it: a fetch that fails with the too-many-redirects
\* error was answered by more than 5 redirects, and a fetch that returned a
\* body by at most 5.
C9_RedirectBound ==
    /\ (pc = "failed" /\ error.exception = TooManyRedirects) => redirects > 5
    /\ pc = "returned" => redirects <= 5

----------------
(* C10: the input file of a run with -i.                                    *)

\* C10: with -i the output goes to a temporary file in the input file's
\* directory; until the rename is done the input file holds what it held when
\* the run started, and a run that failed never renamed.
C10_InPlace ==
    in_place =>
        /\ pc # "done" => fs[args0] = orig
        /\ output # None =>
               /\ output # args0
               /\ Dirname(output) = Dirname(args0)
        /\ pc \in {"serialized", "written"} => output # None

\* a run with -i that failed while it wrote the temporary file
C10_Witness ==
    /\ in_place /\ pc = "failed" /\ error.at = "write"
    /\ fs[output] # Absent /\ fs[output] # <<>>
    /\ fs[args0] = orig

----------------------------------------------------------------------------
(* C11: the metadata of a polyglot that is assembled again.                 *)

\* the second run installed its metadata, or was ended by extract_gemini_part
Reassembly == run = 2 /\ (pc = "installed" \/ (pc = "failed" /\ error.at = "extract"))

Merged(supplied, old, new) ==
    /\ Contained(supplied, new)
    /\ \A k \in DOMAIN old \ DOMAIN supplied : k \in DOMAIN new /\ new[k] = old[k]

\* C11, as the claim states it: assembling again the file made from (S, M),
\* with the metadata M' supplied, installs for every key the value of M' where
\* M' has the key, and the value of M otherwise.
C11_MetadataPrecedence ==
    Reassembly => pc = "installed" /\ Merged(history.supplied, history.metadata, metadata)

----------------------------------------------------------------------------
(* C12: the lines that begin with %!GEMDOC.                                 *)

MagicPrefix == Chars("%!GEMDOC")

ClosedKeys == {"author", "date", "url", "subject", "keywords", "title"}

MagicAt(ls) == {k \in 1..Len(ls) : StartsWith(ls[k], MagicPrefix)}

\* the pair a magic line names: split at the first `=`, trimmed, key lowercased
MagicSplit(rest, eq) ==
    [key |-> [i \in 1..Len(Strip(Take(rest, eq - 1))) |-> Lower(Strip(Take(rest, eq - 1))[i])],
     value |-> Strip(Drop(rest, eq))]

MagicPair(line) ==
    MagicSplit(Drop(line, Len(MagicPrefix)), Find(Drop(line, Len(MagicPrefix)), <<"=">>, 1))

Known(key) == \E k \in ClosedKeys : Chars(k) = key

NameOf(key) == CHOOSE k \in ClosedKeys : Chars(k) = key

Installs(pair, supplied) ==
    /\ Known(pair.key)
    /\ NameOf(pair.key) \in DOMAIN supplied
    /\ supplied[NameOf(pair.key)] = pair.value

MagicHandled(ls, magic) ==
    /\ (\E k \in magic : ~Known(MagicPair(ls[k]).key))
           => pc = "failed" /\ error.exception = "UnsupportedMetadataKey"
    /\ pc = "parsed" =>
           /\ \A k \in magic : Installs(MagicPair(ls[k]), metadata)
           /\ ~Contains(parsed.gemini, MagicPrefix)
           /\ \A i \in 1..Len(parsed.body) : ~Contains(parsed.body[i], MagicPrefix)

\* C12, as the claim states it: every line that begins with `%!GEMDOC` is
\* taken out of the body and gives the metadata its key and value, a key
\* outside the closed set fails with UnsupportedMetadataKey, and the other
\* lines form the body.
C12_MagicLines ==
    pc \in {"parsed", "failed"} => MagicHandled(SplitLines(doc), MagicAt(SplitLines(doc)))

----------------------------------------------------------------------------
(* C13: the date taken from the url.                                        *)

\* the last path component of the url
UrlName(md) == LastPart(SplitOn(UrlParse(md["url"]).path, "/"))

\* four digits, a separator of n characters, two digits, the same separator,
\* two digits, then a non-digit
DatedWith(name, n) ==
    /\ Len(name) >= 9 + 2 * n
    /\ \A k \in {1, 2, 3, 4, 5 + n, 6 + n, 7 + 2 * n, 8 + 2 * n} : name[k] \in Digits
    /\ n = 1 => name[5] \in {"-", "/", "_"} /\ name[8] = name[5]
    /\ name[9 + 2 * n] \notin Digits

DateWith(name, n) ==
    SubSeq(name, 1, 4) \o <<"-">> \o SubSeq(name, 5 + n, 6 + n)
    \o <<"-">> \o SubSeq(name, 7 + 2 * n, 8 + 2 * n)

DateSet(name, md) ==
    \A n \in {0, 1} :
        DatedWith(name, n) => "date" \in DOMAIN md /\ md["date"] = DateWith(name, n)

\* C13, as the claim states it: with a url and no date in the metadata,
\* parse_gemini sets date to YYYY-MM-DD where the last path component of the
\* url is four digits, two digits and two digits, separated by nothing or
\* twice by the same one of `-/_`, and followed by a non-digit.
C13_UrlDate ==
    [][(/\ pc = "defanged" /\ pc' = "parsed"
        /\ "url" \in DOMAIN metadata /\ "date" \notin DOMAIN metadata)
       => DateSet(UrlName(metadata), metadata')]_vars

----------------------------------------------------------------------------
(* C14: the three outcomes of the reader's detection.                       *)

IsPdf(d) == StartsWith(LStrip(d), Chars("%PDF-"))

Signed(ls) == Len(ls) >= 2 /\ StartsWith(ls[2], magic_line)

\* the outcome the claim gives for the text d, against the step taken
Outcome(d, signed) ==
    /\ (IsPdf(d) /\ signed) => ~(pc' = "failed" /\ error'.at = "signature")
    /\ (IsPdf(d) /\ ~signed) =>
           /\ pc' = "failed" /\ error'.at = "signature"
           /\ error'.exception = "GemdocParserException"
    /\ ~IsPdf(d) => pc' = "extracted" /\ doc' = d /\ error' = NoError

\* C14, as the claim states it: a text that starts with `%PDF-` is reported
\* as a polyglot where its second line starts with the signature, fails with
\* GemdocParserException where it does not or where there is no second line,
\* and any other text is taken as text/gemini without an error.
C14_Detection ==
    [][pc = "checked" => Outcome(doc, Signed(SplitLines(LStrip(doc))))]_vars

----------------------------------------------------------------------------
(* C15: the output of a GemdocPDF that has no source.                       *)

\* the output of serialize() for an object without a source
PlainOutput == pc = "serialized" /\ ~polyglot.has_gemini

FollowsLine == Chars("% What follows is a pdf representation of this file")

\* the bytes after the second line begin an object definition
ObjectsFollow(rest) ==
    /\ FindClass(rest, Digits, FALSE, 1) > 1
    /\ StartsWithAt(rest, Chars(" 0 obj\r"), FindClass(rest, Digits, FALSE, 1))

\* C15, as the claim states it: without a source, serialize() emits
\* `%PDF-1.7`, the alternative second line and then directly the object
\* definitions; no toggle line appears in the output, and neither does the
\* line `What follows is a pdf representation of this file`.
C15_PlainOutput ==
    PlainOutput =>
        /\ StartsWith(result, PlainHead)
        /\ ObjectsFollow(Drop(result, Len(PlainHead)))
        /\ ~Contains(result, Toggle)
        /\ ~Contains(result, FollowsLine)

----------------------------------------------------------------------------
(* C16: the free entries of the xref table.                                 *)

FreeEntries(t) == {i \in 1..(t.count - 1) : ~t.entry[i].in_use}

\* the next free object number after i, and 0 after the last one
NextFree(free, i) ==
    IF {j \in free : j > i} = {} THEN 0 ELSE Min({j \in free : j > i})

FreeChain(t, free) == \A i \in free : t.entry[i].offset = NextFree(free, i)

\* C16, as the claim states it: the xref entry of every object number in
\* 1..M-1 that has no object is a free entry whose 10-digit field holds the
\* next free object number greater than it, and 0 for the last free entry.
C16_FreeChain == HasOutput => FreeChain(XrefRead, FreeEntries(XrefRead))

----------------------------------------------------------------------------
(* C17: the order of the objects in the output.                             *)

RECURSIVE Ordered(_)
\* the numbers of the set S in ascending order
Ordered(S) == IF S = {} THEN <<>> ELSE <<Min(S)>> \o Ordered(S \ {Min(S)})

\* the places of the keyword in the bytes, from the place from on
StartsOf(bytes, keyword, from) ==
    {q \in from..Len(bytes) : q > 1 /\ StartsWithAt(bytes, keyword, q)}

NumbersAt(bytes, places) == [k \in 1..Len(places) |-> NumberBefore(bytes, places[k])]

\* the object numbers the bytes define after the place from, in their order
DefinedIn(bytes, keyword, from) ==
    NumbersAt(bytes, Ordered(StartsOf(bytes, keyword, from)))

\* the objects serialize() emits after the embedded-file object
Remaining == DefinedIn(result, Chars(" 0 obj\r"), Find(result, FollowsLine, 1))

Ascending(nums) == \A k \in 1..(Len(nums) - 1) : nums[k] < nums[k + 1]

\* the numbers without those that occurred before
FirstOnly(nums) ==
    SelectSeq([k \in 1..Len(nums) |->
                  IF \E j \in 1..(k - 1) : nums[j] = nums[k] THEN 0 ELSE nums[k]],
              LAMBDA n : n # 0)

\* the input's numbers in the order of their first definitions, and after
\* them the number of the Filespec object where a source is attached
InputOrder(nums) ==
    FirstOnly(nums)
    \o (IF polyglot.has_gemini THEN <<Max({nums[k] : k \in 1..Len(nums)}) + 2>> ELSE <<>>)

\* C17, as the claim states it: after the embedded-file object the objects
\* are emitted in strictly ascending object number, whatever their order in
\* the input.
C17_Ascending == HasOutput => Ascending(Remaining)

\* C17, amended: after the embedded-file object the objects are emitted in
\* the order in which their numbers are first defined in the input, and the
\* Filespec object after them.
C17_InputOrder ==
    HasOutput => Remaining = InputOrder(DefinedIn(engine_pdf, Chars(" 0 obj\n"), 1))

\* an output with a source whose objects do not ascend
C17_Witness ==
    /\ HasOutput /\ polyglot.has_gemini
    /\ ~Ascending(Remaining)
    /\ Len(Remaining) >= 4

----------------------------------------------------------------------------
(* C18: the note added to /Info /Producer.                                  *)

\* the /Producer string of the input: up to its first closing delimiter
ProducerFrom(bytes, p) ==
    SubSeq(bytes, p + 9,
           Find(bytes, IF bytes[p + 9] = "(" THEN <<")">> ELSE <<">">>, p + 9))

OldProducer == ProducerFrom(engine_pdf, Find(engine_pdf, Chars("/Producer"), 1))

\* the /Producer value of the output: the last value of the Info dictionary
ProducerUpTo(bytes, p) ==
    SubSeq(bytes, p + 9, Find(bytes, Chars(">>\rendobj"), p) - 1)

NewProducer == ProducerUpTo(result, Find(result, Chars("/Producer"), 1))

\* one literal string that reads as the original text and the note
LiteralNoted(old, new) ==
    new = Take(old, Len(old) - 1) \o p_note \o <<")">>

\* one hex string that reads as the original text and the note
HexNoted(old, new) ==
    /\ new[1] = "<" /\ new[Len(new)] = ">"
    /\ \A k \in 2..(Len(new) - 1) : new[k] \in HexDigits
    /\ new = Take(old, Len(old) - 1) \o Utf16beHex(p_note) \o <<">">>

ProducerSuffixed(old, new) ==
    IF old[1] = "(" THEN LiteralNoted(old, new) ELSE HexNoted(old, new)

\* C18, as the claim states it: serialize() writes as /Producer the original
\* string with ` (with gemdoc postprocessing)` added inside its delimiters,
\* one well-formed string of the same kind, for a literal string and for a
\* hex string.
C18_ProducerSuffix ==
    HasOutput => ProducerSuffixed(OldProducer, NewProducer)

----------------------------------------------------------------------------
(* C19: literal strings with balanced parentheses.                          *)

RECURSIVE MatchingClose(_, _, _)
\* the place of the parenthesis that closes the one before place i, found
\* by counting the depth
MatchingClose(bytes, i, depth) ==
    IF bytes[i] = ")" /\ depth = 1 THEN i
    ELSE MatchingClose(bytes, i + 1,
                       IF bytes[i] = "(" THEN depth + 1
                       ELSE IF bytes[i] = ")" THEN depth - 1 ELSE depth)

\* the literal string that starts at place p, as the reference scanner cuts it
LiteralAt(bytes, p) == SubSeq(bytes, p, MatchingClose(bytes, p + 1, 1))

FirstLiteral(bytes) == LiteralAt(bytes, Find(bytes, <<"(">>, 1))

\* the dictionary the bytes hold, with the string lit as its first value
Holding(bytes, lit) ==
    IF bytes[5] = "["
    THEN <<[k |-> Chars("/K"), v |-> [t |-> "l", v |-> <<B(lit), B(Chars("(z)"))>>]]>>
    ELSE <<[k |-> Chars("/K"), v |-> B(lit)], [k |-> Chars("/L"), v |-> B(Chars("1"))]>>

\* C19, as the claim states it: a dictionary or array value that starts with
\* `(` and has balanced parentheses, at any depth, is consumed up to and
\* including the parenthesis that matches the first one, and the parser goes
\* on after it.
C19_BalancedString ==
    pc \in {"consumed", "failed"} =>
        /\ pc = "consumed"
        /\ polyglot.dict = Holding(engine_pdf, FirstLiteral(engine_pdf))
        /\ polyglot.rest = <<>>

----------------------------------------------------------------------------
(* C20: the preformatted blocks of the html.                                *)

PreOpen == Chars("<pre>")

PreClose == Chars("</pre>")

\* the <pre> left open after the first n lines of the body
PreDepth(body, n) ==
    Cardinality({i \in 1..n : body[i] = PreOpen})
    - Cardinality({i \in 1..n : body[i] = PreClose})

\* the lines of the body that are no element: the preformatted lines
BareLines(body) == {i \in 1..Len(body) : ~StartsWith(body[i], <<"<">>)}

Alternating(body) == \A n \in 0..Len(body) : PreDepth(body, n) \in {0, 1}

\* the line i of the body stands between a <pre> and its </pre>
Enclosed(body, i) ==
    /\ PreDepth(body, i) = 1
    /\ \E j \in (i + 1)..Len(body) : body[j] = PreClose

Preformatted(body, ls) ==
    /\ \A i \in BareLines(body) :
           /\ Enclosed(body, i)
           /\ \E k \in 1..Len(ls) : body[i] = HtmlEscape(ls[k])
    /\ Alternating(body)
    /\ PreDepth(body, Len(body)) = 0

\* C20, as the claim states it: every preformatted line is emitted escaped
\* between a `<pre>` and its `</pre>`, `<pre>` and `</pre>` alternate, and
\* after the last input line no `<pre>` is left open.
C20_Preformatted ==
    pc = "parsed" => Preformatted(parsed.body, SplitLines(doc))

----------------------------------------------------------------------------
(* C21: the output read as text/gemini.                                     *)

\* the preformatted mode after the first n lines: each toggle line turns it
PreAfter(ls, n) ==
    Cardinality({i \in 1..n : StartsWith(ls[i], Toggle)}) % 2 = 1

\* the lines of the source are read in the mode they have in the source alone
SourceRead(ls, src, first) ==
    \A k \in 1..Len(src) :
        /\ ls[first + k - 1] = src[k]
        /\ PreAfter(ls, first + k - 2) = PreAfter(src, k - 1)

\* every line after line w is read in preformatted mode
Hidden(ls, w) ==
    /\ PreAfter(ls, w)
    /\ \A i \in (w + 1)..Len(ls) : ~StartsWith(ls[i], Toggle)

FollowsAt(ls) == CHOOSE w \in 1..Len(ls) : ls[w] = Toggle \o FollowsLine

GeminiRead(ls, src) ==
    /\ \E w \in 1..Len(ls) : ls[w] = Toggle \o FollowsLine
    /\ SourceRead(ls, src, 5)
    /\ Hidden(ls, FollowsAt(ls))

\* C21, as the claim states it: read line by line as text/gemini, the lines
\* of the embedded source have the preformatted mode they have in the source
\* alone, and every line after the `What follows is a pdf representation of
\* this file` line is read in preformatted mode.
C21_BinaryHidden ==
    (HasOutput /\ polyglot.has_gemini)
        => GeminiRead(SplitOn(result, "\n"), SplitOn(Encode(polyglot.gemini), "\n"))

\* C22: serialize() called twice on the same object, with no other operation
\* in between, returns identical bytes both times: the second call ends
\* without an exception and its result is the result of the first call.
C22_Repeatable ==
    [][(pc = "serialized") => (pc' = "reserialized" /\ result' = result)]_vars

----------------------------------------------------------------------------
(* C23: what the translator changes in the source it exports.               *)

\* the n lines that were joined with "\n" into the exported source g
JoinedLines(g, n) == IF n = 0 THEN <<>> ELSE SplitOn(g, "\n")

\* the exported source g is the join of exactly n lines
LineCount(g, n) == IF n = 0 THEN Len(g) = 0 ELSE Len(SplitOn(g, "\n")) = n

\* the link of the link line
LinkOf(line) == Split1(LStrip(Drop(line, 2)))[1]

\* line k of ls is a link line outside a preformatted block
IsLinkLine(ls, k) ==
    /\ StartsWith(ls[k], Chars("=>"))
    /\ Outside(ls, k)
    /\ Len(Split1(LStrip(Drop(ls[k], 2)))) > 0

\* line k is a link line whose link was made absolute: it had no scheme and
\* the link of the exported line has one
MadeAbsolute(ls, out, k) ==
    /\ IsLinkLine(ls, k)
    /\ IsLinkLine(out, k)
    /\ Len(UrlParse(LinkOf(ls[k])).scheme) = 0
    /\ Len(UrlParse(LinkOf(out[k])).scheme) > 0

\* line k is a link line whose link the translator resolves: a link that
\* starts with // when there is no url, a link without scheme when there is
Resolves(ls, k, md) ==
    /\ IsLinkLine(ls, k)
    /\ IF "url" \in DOMAIN md THEN Len(UrlParse(LinkOf(ls[k])).scheme) = 0
       ELSE StartsWith(LinkOf(ls[k]), Chars("//"))

\* line k is a toggle line that closes a preformatted block: it is read in
\* preformatted mode and it does not directly follow the toggle line that
\* opened the block
Closes(ls, k) ==
    /\ StartsWith(ls[k], Toggle)
    /\ ~Outside(ls, k)
    /\ ~(k > 1 /\ StartsWith(ls[k - 1], Toggle))

\* the frame as the claim states it, for the input lines ls and the exported
\* lines out
SourceFrame(ls, out) ==
    /\ Len(out) = Len(ls)
    /\ \A k \in 1..Len(ls) : out[k] = ls[k] \/ MadeAbsolute(ls, out, k)

\* the frame with the closing toggle lines, which are exported bare
Frame(ls, out, md) ==
    /\ Len(out) = Len(ls)
    /\ \A k \in 1..Len(ls) :
           \/ out[k] = ls[k]
           \/ Resolves(ls, k, md)
           \/ Closes(ls, k) /\ out[k] = Toggle

\* C23, as the claim states it: the exported source has as many lines as the
\* input, and every line is the input line at the same position except the
\* link lines outside preformatted blocks whose link was made absolute;
\* toggle lines among the others are never modified.
C23_SourceFrame ==
    pc = "parsed"
        => /\ LineCount(parsed.gemini, Len(SplitLines(doc)))
           /\ SourceFrame(SplitLines(doc),
                          JoinedLines(parsed.gemini, Len(SplitLines(doc))))

\* C23, amended: the exported source is the join of as many lines as the
\* input has, and every line is the input line at the same position except
\* the link lines outside preformatted blocks whose link the translator
\* resolves, and the toggle lines that close a preformatted block, which are
\* exported as three backticks alone.
C23_FrameButClosing ==
    pc = "parsed"
        => /\ LineCount(parsed.gemini, Len(SplitLines(doc)))
           /\ Frame(SplitLines(doc),
                    JoinedLines(parsed.gemini, Len(SplitLines(doc))), metadata)

\* a closing toggle line lost the text after its backticks, and the lines
\* before it were kept as they were
ClosedBare(ls, out) ==
    \E k \in 2..Len(ls) :
        /\ Closes(ls, k) /\ ls[k] # Toggle /\ out[k] = Toggle
        /\ \A j \in 1..(k - 1) : out[j] = ls[j]

C23_Witness ==
    /\ pc = "parsed"
    /\ LineCount(parsed.gemini, Len(SplitLines(doc)))
    /\ ClosedBare(SplitLines(doc),
                  JoinedLines(parsed.gemini, Len(SplitLines(doc))))

====
